---- MODULE Spec2Model ----
(***************************************************************************)
(* Model of the knowledge-base bulk import / export pipeline               *)
(* (BulkImportService) of the Gifted Bot Store backend.                    *)
(*                                                                         *)
(* Text is a sequence of one-character strings, so that split, trim,       *)
(* quoting and JSON conversion are computed character by character.        *)
(* A JavaScript value is a record [k |-> kind, v |-> payload]:             *)
(*   undefined / null         v = << >>                                    *)
(*   string                   v = the characters                           *)
(*   number                   v = the decimal digits                       *)
(*   boolean                  v = the characters of true or false          *)
(*   array                    v = the elements                             *)
(*   object                   v = the members <<key, value>> in insertion  *)
(*                                order                                    *)
(***************************************************************************)
EXTENDS Integers, Sequences, FiniteSets, TLC

(* ---------------------------------------------------------------------- *)
(* JavaScript values                                                        *)
(* ---------------------------------------------------------------------- *)
TrueText == <<"t", "r", "u", "e">>
FalseText == <<"f", "a", "l", "s", "e">>
NullText == <<"n", "u", "l", "l">>

Undef == [k |-> "undefined", v |-> << >>]
Null == [k |-> "null", v |-> << >>]
Str(s) == [k |-> "string", v |-> s]
Num(d) == [k |-> "number", v |-> d]
Bool(b) == [k |-> "boolean", v |-> b]
Arr(es) == [k |-> "array", v |-> es]
Obj(ms) == [k |-> "object", v |-> ms]

IsString(x) == x.k = "string"

\* JavaScript truthiness (ToBoolean) of a value.
Truthy(x) ==
  CASE x.k = "undefined" -> FALSE
    [] x.k = "null" -> FALSE
    [] x.k = "string" -> x.v /= << >>
    [] x.k = "number" -> x.v /= <<"0">>
    [] x.k = "boolean" -> x.v = TrueText
    [] OTHER -> TRUE

\* Index of the last member of an object with the given key, 0 if none.
MemberIndex(ms, key) ==
  LET hits == {i \in 1..Len(ms) : ms[i][1] = key}
  IN IF hits = {} THEN 0 ELSE CHOOSE i \in hits : \A j \in hits : j <= i

\* Property read x.key: own member of an object, undefined on any other
\* non-nullish value.  (Reading a property of null or undefined throws; the
\* callers test Nullish first.)
Get(x, key) ==
  IF x.k = "object" /\ MemberIndex(x.v, key) /= 0
  THEN x.v[MemberIndex(x.v, key)][2]
  ELSE Undef

Nullish(x) == x.k \in {"undefined", "null"}

(* ---------------------------------------------------------------------- *)
(* Text primitives: String.prototype.trim, split, join, replace            *)
(* ---------------------------------------------------------------------- *)
WhiteSpace == {" ", "\t", "\n", "\r"}
Digits == {"0", "1", "2", "3", "4", "5", "6", "7", "8", "9"}

Trim(s) ==
  LET ink == {i \in 1..Len(s) : s[i] \notin WhiteSpace}
  IN IF ink = {} THEN << >>
     ELSE LET lo == CHOOSE i \in ink : \A j \in ink : i <= j
              hi == CHOOSE i \in ink : \A j \in ink : j <= i
          IN SubSeq(s, lo, hi)

\* s.split(sep) for a one-character separator: always at least one segment.
RECURSIVE SplitFrom(_, _, _)
SplitFrom(s, sep, from) ==
  LET hits == {i \in from..Len(s) : s[i] = sep}
  IN IF hits = {} THEN <<SubSeq(s, from, Len(s))>>
     ELSE LET p == CHOOSE i \in hits : \A j \in hits : i <= j
          IN <<SubSeq(s, from, p - 1)>> \o SplitFrom(s, sep, p + 1)

Split(s, sep) == SplitFrom(s, sep, 1)

\* The concatenation of a sequence of texts (by halves, to keep the
\* evaluation shallow on long texts).
RECURSIVE Concat(_)
Concat(parts) ==
  IF parts = << >> THEN << >>
  ELSE IF Len(parts) = 1 THEN parts[1]
  ELSE LET mid == Len(parts) \div 2
       IN Concat(SubSeq(parts, 1, mid)) \o Concat(SubSeq(parts, mid + 1, Len(parts)))

\* parts.join(sep)
Join(parts, sep) ==
  Concat([n \in 1..Len(parts) |-> IF n = 1 THEN parts[n] ELSE sep \o parts[n]])

\* Variant: the quotes of a field are written as they are.
DoubleQuotes_Kept(s) == s

\* s.replace(/"/g, '""')
DoubleQuotes(s) ==
  Concat([n \in 1..Len(s) |-> IF s[n] = "\"" THEN <<"\"", "\"">> ELSE <<s[n]>>])

\* Variant: the segments are used as they are split.
TrimAll_Untrimmed(parts) == parts

\* parts.map((v) => v.trim())
TrimAll(parts) == [n \in 1..Len(parts) |-> Trim(parts[n])]

(* ---------------------------------------------------------------------- *)
(* JSON.parse and JSON.stringify (library functions the service calls).    *)
(* Covered: whitespace, strings with the escapes \" \\ \/ \n \t \r,        *)
(* non-negative integers, true, false, null, arrays and objects.  The      *)
(* texts of this model contain no sign, fraction, exponent or \u escape.   *)
(* ---------------------------------------------------------------------- *)
ParseFail == [ok |-> FALSE, val |-> Undef, next |-> 0]
ParseOk(val, next) == [ok |-> TRUE, val |-> val, next |-> next]

\* First position >= i that holds no JSON white space (Len(s)+1 if none).
SkipWS(s, i) ==
  LET stop == {j \in i..Len(s) : s[j] \notin WhiteSpace}
  IN IF stop = {} THEN Len(s) + 1 ELSE CHOOSE j \in stop : \A m \in stop : j <= m

HasPrefixAt(s, i, w) ==
  /\ i + Len(w) - 1 <= Len(s)
  /\ SubSeq(s, i, i + Len(w) - 1) = w

\* Object member assignment: a repeated key keeps its first position and
\* takes the last value.
Put(ms, key, val) ==
  IF MemberIndex(ms, key) = 0 THEN Append(ms, <<key, val>>)
  ELSE [ms EXCEPT ![MemberIndex(ms, key)] = <<key, val>>]

\* The characters of a string literal whose opening quote precedes i.
RECURSIVE ScanString(_, _, _)
ScanString(s, i, acc) ==
  LET special == {j \in i..Len(s) : s[j] \in {"\"", "\\", "\n", "\t", "\r"}}
  IN IF special = {} THEN ParseFail
     ELSE LET p == CHOOSE j \in special : \A m \in special : j <= m
              run == acc \o SubSeq(s, i, p - 1)
          IN IF s[p] = "\"" THEN ParseOk(Str(run), p + 1)
             ELSE IF s[p] /= "\\" \/ p + 1 > Len(s) THEN ParseFail
             ELSE IF s[p + 1] \in {"\"", "\\", "/"}
                  THEN ScanString(s, p + 2, Append(run, s[p + 1]))
             ELSE IF s[p + 1] = "n" THEN ScanString(s, p + 2, Append(run, "\n"))
             ELSE IF s[p + 1] = "t" THEN ScanString(s, p + 2, Append(run, "\t"))
             ELSE IF s[p + 1] = "r" THEN ScanString(s, p + 2, Append(run, "\r"))
             ELSE ParseFail

\* A number starting at i: 0, or a non-zero digit followed by digits.
ScanNumber(s, i) ==
  LET stop == {j \in i..Len(s) : s[j] \notin Digits}
      end == IF stop = {} THEN Len(s) + 1
             ELSE CHOOSE j \in stop : \A m \in stop : j <= m
  IN IF s[i] = "0" THEN ParseOk(Num(<<"0">>), i + 1)
     ELSE ParseOk(Num(SubSeq(s, i, end - 1)), end)

RECURSIVE ParseValue(_, _)
RECURSIVE ParseElems(_, _, _)
RECURSIVE ParseMembers(_, _, _)

\* The value starting at the first position >= i that is not white space;
\* k is the first such position after the value's first character.
ParseValue(s, i) ==
  LET value(j, k) ==
        IF j > Len(s) THEN ParseFail
        ELSE IF s[j] = "\"" THEN ScanString(s, j + 1, << >>)
        ELSE IF s[j] \in Digits THEN ScanNumber(s, j)
        ELSE IF HasPrefixAt(s, j, TrueText) THEN ParseOk(Bool(TrueText), j + 4)
        ELSE IF HasPrefixAt(s, j, FalseText) THEN ParseOk(Bool(FalseText), j + 5)
        ELSE IF HasPrefixAt(s, j, NullText) THEN ParseOk(Null, j + 4)
        ELSE IF s[j] = "[" THEN
          (IF k <= Len(s) /\ s[k] = "]" THEN ParseOk(Arr(<< >>), k + 1)
           ELSE ParseElems(s, j + 1, << >>))
        ELSE IF s[j] = "{" THEN
          (IF k <= Len(s) /\ s[k] = "}" THEN ParseOk(Obj(<< >>), k + 1)
           ELSE ParseMembers(s, j + 1, << >>))
        ELSE ParseFail
      start(j) == value(j, SkipWS(s, j + 1))
  IN start(SkipWS(s, i))

\* One element at i, then "," and more elements or the closing bracket.
ParseElems(s, i, acc) ==
  LET after(r, j) ==
        IF ~r.ok \/ j > Len(s) THEN ParseFail
        ELSE IF s[j] = "]" THEN ParseOk(Arr(Append(acc, r.val)), j + 1)
        ELSE IF s[j] = "," THEN ParseElems(s, j + 1, Append(acc, r.val))
        ELSE ParseFail
      element(r) == after(r, IF r.ok THEN SkipWS(s, r.next) ELSE 0)
  IN element(ParseValue(s, i))

\* One member "key": value at i, then "," and more members or the brace.
ParseMembers(s, i, acc) ==
  LET after(ms, e) ==
        IF e > Len(s) THEN ParseFail
        ELSE IF s[e] = "}" THEN ParseOk(Obj(ms), e + 1)
        ELSE IF s[e] = "," THEN ParseMembers(s, e + 1, ms)
        ELSE ParseFail
      value(key, r) ==
        IF ~r.ok THEN ParseFail
        ELSE after(Put(acc, key.val.v, r.val), SkipWS(s, r.next))
      colon(key, c) ==
        IF c > Len(s) THEN ParseFail
        ELSE IF s[c] /= ":" THEN ParseFail
        ELSE value(key, ParseValue(s, c + 1))
      name(key) ==
        IF ~key.ok THEN ParseFail ELSE colon(key, SkipWS(s, key.next))
      member(j) ==
        IF j > Len(s) THEN ParseFail
        ELSE IF s[j] /= "\"" THEN ParseFail
        ELSE name(ScanString(s, j + 1, << >>))
  IN member(SkipWS(s, i))

\* JSON.parse(s): ok = FALSE stands for the SyntaxError it throws.
JSONparse(s) ==
  LET whole(r) ==
        IF r.ok /\ SkipWS(s, r.next) > Len(s)
        THEN [ok |-> TRUE, val |-> r.val]
        ELSE [ok |-> FALSE, val |-> Undef]
  IN whole(ParseValue(s, 1))

EscapeChars(s) ==
  Concat([n \in 1..Len(s) |->
            CASE s[n] = "\"" -> <<"\\", "\"">>
              [] s[n] = "\\" -> <<"\\", "\\">>
              [] s[n] = "\n" -> <<"\\", "n">>
              [] s[n] = "\t" -> <<"\\", "t">>
              [] s[n] = "\r" -> <<"\\", "r">>
              [] OTHER -> <<s[n]>>])

QuoteJSON(s) == <<"\"">> \o EscapeChars(s) \o <<"\"">>

\* JSON.stringify(x, null, gap) for a value other than undefined; gap is
\* << >> (compact) or the indentation unit, indent the current indentation.
RECURSIVE Stringify(_, _, _)
Stringify(x, gap, indent) ==
  LET inner == indent \o gap
      sep == IF gap = << >> THEN <<",">> ELSE <<",", "\n">> \o inner
      wrap(open, parts, close) ==
        IF parts = << >> THEN <<open, close>>
        ELSE IF gap = << >> THEN <<open>> \o Join(parts, sep) \o <<close>>
        ELSE <<open, "\n">> \o inner \o Join(parts, sep)
               \o <<"\n">> \o indent \o <<close>>
  IN CASE x.k = "string" -> QuoteJSON(x.v)
       [] x.k = "number" -> x.v
       [] x.k = "boolean" -> x.v
       [] x.k = "array" ->
            wrap("[", [n \in 1..Len(x.v) |->
                         IF x.v[n].k = "undefined" THEN NullText
                         ELSE Stringify(x.v[n], gap, inner)], "]")
       [] x.k = "object" ->
            LET kept == SelectSeq(x.v, LAMBDA m : m[2].k /= "undefined")
            IN wrap("{", [n \in 1..Len(kept) |->
                            QuoteJSON(kept[n][1]) \o <<":">>
                              \o (IF gap = << >> THEN << >> ELSE <<" ">>)
                              \o Stringify(kept[n][2], gap, inner)], "}")
       [] OTHER -> NullText

JSONstringify(x) == Stringify(x, << >>, << >>)
JSONstringifyPretty(x) == Stringify(x, <<" ", " ">>, << >>)

(* ---------------------------------------------------------------------- *)
(* BulkImportService: pure functions.                                       *)
(* A function that may throw returns [threw, message, val].  The fixed      *)
(* words of a message are kept as one element of the message text.          *)
(* ---------------------------------------------------------------------- *)
K_type == <<"t", "y", "p", "e">>
K_title == <<"t", "i", "t", "l", "e">>
K_content == <<"c", "o", "n", "t", "e", "n", "t">>
K_url == <<"u", "r", "l">>
K_metadata == <<"m", "e", "t", "a", "d", "a", "t", "a">>

T_website == <<"w", "e", "b", "s", "i", "t", "e">>
T_book == <<"b", "o", "o", "k">>
T_music == <<"m", "u", "s", "i", "c">>
T_artist == <<"a", "r", "t", "i", "s", "t">>
T_feature == <<"f", "e", "a", "t", "u", "r", "e">>
T_blog == <<"b", "l", "o", "g">>

validTypes == <<T_website, T_book, T_music, T_artist, T_feature, T_blog>>

MaxTitleLength == 255

Returned(val) == [threw |-> FALSE, message |-> << >>, val |-> val]
Thrown(message) == [threw |-> TRUE, message |-> message, val |-> << >>]

\* Messages of errors raised by the JavaScript engine (engine-defined text).
SyntaxErrorMessage == <<"Unexpected token in JSON">>
TypeErrorMessage == <<"Cannot read properties">>

\* a || b
OrElse(a, b) == IF Truthy(a) THEN a ELSE b

\* String(x), as a template literal converts an interpolated value.
RECURSIVE ToStr(_)
ToStr(x) ==
  CASE x.k \in {"string", "number", "boolean"} -> x.v
    [] x.k = "undefined" -> <<"u", "n", "d", "e", "f", "i", "n", "e", "d">>
    [] x.k = "null" -> NullText
    [] x.k = "array" ->
         Join([n \in 1..Len(x.v) |->
                 IF Nullish(x.v[n]) THEN << >> ELSE ToStr(x.v[n])], <<",">>)
    [] OTHER -> <<"[object Object]">>

\* The name whose assignment sets the prototype of an object: assigning a
\* string to it changes nothing and creates no member.
K_proto == <<"_", "_", "p", "r", "o", "t", "o", "_", "_">>

\* The row object of one data line: row[headers[j]] = values[j] || ''.
RECURSIVE RowOf(_, _, _, _)
\* Variant: a missing field is left undefined.
RowOf_MissingUndefined(headers, values, j, acc) ==
  IF j > Len(headers) THEN Obj(acc)
  ELSE RowOf(headers, values, j + 1,
             IF headers[j] = K_proto THEN acc
             ELSE Put(acc, headers[j],
                      IF j <= Len(values) THEN Str(values[j]) ELSE Undef))

RowOf(headers, values, j, acc) ==
  IF j > Len(headers) THEN Obj(acc)
  ELSE RowOf(headers, values, j + 1,
             IF headers[j] = K_proto THEN acc
             ELSE Put(acc, headers[j],
                      Str(IF j <= Len(values) THEN values[j] ELSE << >>)))

\* Variant: a header without data rows is accepted.
parseCSV_HeaderSuffices(content) ==
  LET lines == SelectSeq(Split(content, "\n"), LAMBDA line : Trim(line) /= << >>)
  IN IF Len(lines) < 1
     THEN Thrown(<<"CSV must have at least a header row and one data row">>)
     ELSE LET headers == TrimAll(Split(lines[1], ","))
          IN Returned([n \in 1..(Len(lines) - 1) |->
                         RowOf(headers, TrimAll(Split(lines[n + 1], ",")),
                               1, << >>)])

\* Variant: the lines are not filtered, blank lines count as header or rows.
parseCSV_KeepsBlankLines(content) ==
  LET lines == Split(content, "\n")
  IN IF Len(lines) < 2
     THEN Thrown(<<"CSV must have at least a header row and one data row">>)
     ELSE LET headers == TrimAll(Split(lines[1], ","))
          IN Returned([n \in 1..(Len(lines) - 1) |->
                         RowOf(headers, TrimAll(Split(lines[n + 1], ",")),
                               1, << >>)])

parseCSV(content) ==
  LET lines == SelectSeq(Split(content, "\n"), LAMBDA line : Trim(line) /= << >>)
  IN IF Len(lines) < 2
     THEN Thrown(<<"CSV must have at least a header row and one data row">>)
     ELSE LET headers == TrimAll(Split(lines[1], ","))
          IN Returned([n \in 1..(Len(lines) - 1) |->
                         RowOf(headers, TrimAll(Split(lines[n + 1], ",")),
                               1, << >>)])

parseJSON(content) ==
  LET checked(data) ==
        IF ~data.ok
        THEN Thrown(<<"Invalid JSON: ">> \o SyntaxErrorMessage)
        ELSE IF data.val.k /= "array"
        THEN Thrown(<<"Invalid JSON: ">> \o <<"JSON must be an array of entries">>)
        ELSE Returned(data.val.v)
  IN checked(JSONparse(content))

\* Variant: the type of the row is passed on as it is, without a default.
EntryOfRow_NoDefaultType(row) ==
  LET mapped(given, parsed) ==
        [metadataOk |-> ~given \/ parsed.ok,
         entry |-> Obj(<< <<K_type, Get(row, K_type)>>,
                          <<K_title, OrElse(Get(row, K_title), Str(<< >>))>>,
                          <<K_content, OrElse(Get(row, K_content), Str(<< >>))>>,
                          <<K_url, Get(row, K_url)>>,
                          <<K_metadata, IF given /\ parsed.ok
                                        THEN parsed.val ELSE Undef>> >>)]
      metadata(meta) == mapped(Truthy(meta), JSONparse(meta.v))
  IN metadata(Get(row, K_metadata))

\* The entry built from one row; metadataOk is FALSE when JSON.parse of the
\* row's metadata throws.
EntryOfRow(row) ==
  LET mapped(given, parsed) ==
        [metadataOk |-> ~given \/ parsed.ok,
         entry |-> Obj(<< <<K_type, OrElse(Get(row, K_type), Str(T_website))>>,
                          <<K_title, OrElse(Get(row, K_title), Str(<< >>))>>,
                          <<K_content, OrElse(Get(row, K_content), Str(<< >>))>>,
                          <<K_url, Get(row, K_url)>>,
                          <<K_metadata, IF given /\ parsed.ok
                                        THEN parsed.val ELSE Undef>> >>)]
      metadata(meta) == mapped(Truthy(meta), JSONparse(meta.v))
  IN metadata(Get(row, K_metadata))

\* Variant: a row whose metadata is not JSON is mapped without metadata.
csvToEntries_DropsBadMetadata(rows) ==
  LET collect(mapped) == Returned([n \in 1..Len(mapped) |-> mapped[n].entry])
  IN collect([n \in 1..Len(rows) |-> EntryOfRow(rows[n])])

csvToEntries(rows) ==
  LET collect(mapped) ==
        IF \E n \in 1..Len(mapped) : ~mapped[n].metadataOk
        THEN Thrown(SyntaxErrorMessage)
        ELSE Returned([n \in 1..Len(mapped) |-> mapped[n].entry])
  IN collect([n \in 1..Len(rows) |-> EntryOfRow(rows[n])])

\* Reading a property of null, or calling trim on a value that is not a
\* string, raises a TypeError inside validateEntries.
EntryThrows(entry) ==
  \/ Nullish(entry)
  \/ Truthy(Get(entry, K_title)) /\ ~IsString(Get(entry, K_title))
  \/ Truthy(Get(entry, K_content)) /\ ~IsString(Get(entry, K_content))

InSeq(x, s) == \E n \in 1..Len(s) : s[n] = x

\* Variant: the checks are chained, so an entry gets its first error only.
EntryErrors_FirstOnly(entry, i) ==
  LET type == Get(entry, K_type)
      title == Get(entry, K_title)
      content == Get(entry, K_content)
  IN IF ~Truthy(type)
     THEN <<[index |-> i, error |-> <<"Missing type field">>]>>
     ELSE IF ~(IsString(type) /\ InSeq(type.v, validTypes))
     THEN <<[index |-> i,
             error |-> <<"Invalid type: ">> \o ToStr(type)
                         \o <<". Must be one of: ">>
                         \o Join(validTypes, <<",", " ">>)]>>
     ELSE IF ~Truthy(title) \/ Trim(title.v) = << >>
     THEN <<[index |-> i, error |-> <<"Missing or empty title">>]>>
     ELSE IF ~Truthy(content) \/ Trim(content.v) = << >>
     THEN <<[index |-> i, error |-> <<"Missing or empty content">>]>>
     ELSE IF Truthy(title) /\ Len(title.v) > MaxTitleLength
     THEN <<[index |-> i, error |-> <<"Title too long (max 255 characters)">>]>>
     ELSE << >>

\* Variant: the length of the title is checked right after the title.
EntryErrors_LengthBeforeContent(entry, i) ==
  LET type == Get(entry, K_type)
      title == Get(entry, K_title)
      content == Get(entry, K_content)
  IN (IF ~Truthy(type)
      THEN <<[index |-> i, error |-> <<"Missing type field">>]>>
      ELSE IF ~(IsString(type) /\ InSeq(type.v, validTypes))
      THEN <<[index |-> i,
              error |-> <<"Invalid type: ">> \o ToStr(type)
                          \o <<". Must be one of: ">>
                          \o Join(validTypes, <<",", " ">>)]>>
      ELSE << >>)
     \o (IF ~Truthy(title) \/ Trim(title.v) = << >>
         THEN <<[index |-> i, error |-> <<"Missing or empty title">>]>>
         ELSE << >>)
     \o (IF Truthy(title) /\ Len(title.v) > MaxTitleLength
         THEN <<[index |-> i, error |-> <<"Title too long (max 255 characters)">>]>>
         ELSE << >>)
     \o (IF ~Truthy(content) \/ Trim(content.v) = << >>
         THEN <<[index |-> i, error |-> <<"Missing or empty content">>]>>
         ELSE << >>)

\* The errors of the entry at zero-based index i, in the order of the checks.
EntryErrors(entry, i) ==
  LET type == Get(entry, K_type)
      title == Get(entry, K_title)
      content == Get(entry, K_content)
  IN (IF ~Truthy(type)
      THEN <<[index |-> i, error |-> <<"Missing type field">>]>>
      ELSE IF ~(IsString(type) /\ InSeq(type.v, validTypes))
      THEN <<[index |-> i,
              error |-> <<"Invalid type: ">> \o ToStr(type)
                          \o <<". Must be one of: ">>
                          \o Join(validTypes, <<",", " ">>)]>>
      ELSE << >>)
     \o (IF ~Truthy(title) \/ Trim(title.v) = << >>
         THEN <<[index |-> i, error |-> <<"Missing or empty title">>]>>
         ELSE << >>)
     \o (IF ~Truthy(content) \/ Trim(content.v) = << >>
         THEN <<[index |-> i, error |-> <<"Missing or empty content">>]>>
         ELSE << >>)
     \o (IF Truthy(title) /\ Len(title.v) > MaxTitleLength
         THEN <<[index |-> i, error |-> <<"Title too long (max 255 characters)">>]>>
         ELSE << >>)

\* Variant: the validator numbers the entries from one.
validateEntries_OneBased(entries) ==
  IF \E n \in 1..Len(entries) : EntryThrows(entries[n])
  THEN Thrown(TypeErrorMessage)
  ELSE Returned(Concat([n \in 1..Len(entries) |-> EntryErrors(entries[n], n)]))

validateEntries(entries) ==
  IF \E n \in 1..Len(entries) : EntryThrows(entries[n])
  THEN Thrown(TypeErrorMessage)
  ELSE Returned(Concat([n \in 1..Len(entries) |-> EntryErrors(entries[n], n - 1)]))

(* ---------------------------------------------------------------------- *)
(* State                                                                    *)
(* ---------------------------------------------------------------------- *)
VARIABLES
  dbAvailable,  \* whether the imported db handle is non-null
  store,        \* the knowledgeEntries table, in insertion order
  calls,        \* per caller: the service call it last made and how far it got
  purchases,    \* the userBotPurchases table, in insertion order
  subscriptions,\* the paypalSubscriptions table, in insertion order
  now,          \* the clock read by new Date()
  botCalls      \* per caller: the bot checkout call it last made

\* The state of the bot checkout service.
botVars == <<purchases, subscriptions, now, botCalls>>

\* The state of the bulk import service besides the database handle.
importVars == <<store, calls>>

vars == <<dbAvailable, store, calls, purchases, subscriptions, now, botCalls>>

Callers == {"c1", "c2"}
UserIds == {1, 2}

\* Largest number of rows the table may hold: a call starts only when the
\* table has room for every row it may insert.
MaxStore == 2
\* Largest number of records in a generated JSON batch.
MaxBatch == 2

EmptyResult ==
  [success |-> FALSE, totalRows |-> 0, importedRows |-> 0, skippedRows |-> 0,
   errors |-> << >>]

NoSource == [exported |-> FALSE, rows |-> << >>]

IdleCall ==
  [op |-> "none", status |-> "idle", userId |-> 0, content |-> << >>,
   source |-> NoSource, entries |-> << >>, validationErrors |-> << >>,
   validIndices |-> {}, i |-> 0, attempts |-> << >>, result |-> EmptyResult,
   message |-> << >>, fetched |-> << >>, output |-> << >>]

\* Variant: the catch block returns the failure without an error record.
FormatErrorResult_NoRecord(prefix, message) ==
  [success |-> FALSE, totalRows |-> 0, importedRows |-> 0, skippedRows |-> 0,
   errors |-> << >>]

\* The result importFromCSV / importFromJSON build in their catch block.
FormatErrorResult(prefix, message) ==
  [success |-> FALSE, totalRows |-> 0, importedRows |-> 0, skippedRows |-> 0,
   errors |-> <<[rowIndex |-> 0, error |-> <<prefix>> \o message]>>]

\* Variant: the rows of the batch are not counted as skipped.
NoDatabaseResult_NoneSkipped(entries) ==
  [success |-> FALSE, totalRows |-> Len(entries), importedRows |-> 0,
   skippedRows |-> 0,
   errors |-> <<[rowIndex |-> 0, error |-> <<"Database not initialized">>]>>]

\* The result importEntries returns when db is null.
NoDatabaseResult(entries) ==
  [success |-> FALSE, totalRows |-> Len(entries), importedRows |-> 0,
   skippedRows |-> Len(entries),
   errors |-> <<[rowIndex |-> 0, error |-> <<"Database not initialized">>]>>]

\* What a text or numeric column holds for a written value.  (The inputs of
\* this model give url as text or not at all.)
ColumnValue(x) == IF Nullish(x) THEN Null ELSE Str(ToStr(x))

\* Variant: every row is written under the first owner.
InsertValues_FirstOwner(userId, entry) ==
  [userId |-> 1,
   type |-> ColumnValue(Get(entry, K_type)),
   title |-> ColumnValue(Get(entry, K_title)),
   content |-> ColumnValue(Get(entry, K_content)),
   url |-> ColumnValue(Get(entry, K_url)),
   metadata |-> IF Truthy(Get(entry, K_metadata))
                THEN Str(JSONstringify(Get(entry, K_metadata))) ELSE Null]

\* The row importEntries passes to db.insert(knowledgeEntries).values(...).
InsertValues(userId, entry) ==
  [userId |-> userId,
   type |-> ColumnValue(Get(entry, K_type)),
   title |-> ColumnValue(Get(entry, K_title)),
   content |-> ColumnValue(Get(entry, K_content)),
   url |-> ColumnValue(Get(entry, K_url)),
   metadata |-> IF Truthy(Get(entry, K_metadata))
                THEN Str(JSONstringify(Get(entry, K_metadata))) ELSE Null]

\* Variant: every index counts as valid.
ValidIndices_All(entries, validationErrors) == 0..(Len(entries) - 1)

\* const validIndices = new Set(indices with no validation error)
ValidIndices(entries, validationErrors) ==
  {i \in 0..(Len(entries) - 1) :
     ~\E n \in 1..Len(validationErrors) : validationErrors[n].index = i}

\* Variant: the rows skipped as invalid are not counted.
LoopFrom_SkipsUncounted(call, from) ==
  LET n == Len(call.entries)
      ahead == {i \in call.validIndices : i >= from}
  IN IF ahead = {}
     THEN [call EXCEPT !.status = "returned", !.i = n,
                       !.result.success = (call.result.skippedRows = 0)]
     ELSE LET j == CHOOSE i \in ahead : \A m \in ahead : i <= m
          IN [call EXCEPT !.status = "awaitInsert", !.i = j,
                          !.attempts = Append(@, j)]

\* Variant: success is decided by the imported rows instead of the skipped.
LoopFrom_SuccessWhenImported(call, from) ==
  LET n == Len(call.entries)
      ahead == {i \in call.validIndices : i >= from}
  IN IF ahead = {}
     THEN [call EXCEPT !.status = "returned", !.i = n,
                       !.result.skippedRows = @ + (n - from),
                       !.result.success = (call.result.importedRows > 0)]
     ELSE LET j == CHOOSE i \in ahead : \A m \in ahead : i <= m
          IN [call EXCEPT !.status = "awaitInsert", !.i = j,
                          !.attempts = Append(@, j),
                          !.result.skippedRows = @ + (j - from)]

\* Variant: a row passed over as invalid counts once for each of its errors.
LoopFrom_SkipsPerError(call, from) ==
  LET n == Len(call.entries)
      ahead == {i \in call.validIndices : i >= from}
      errorsIn(lo, hi) ==
        Cardinality({m \in 1..Len(call.validationErrors) :
                       call.validationErrors[m].index \in lo..hi})
  IN IF ahead = {}
     THEN LET skipped == call.result.skippedRows + errorsIn(from, n - 1)
          IN [call EXCEPT !.status = "returned", !.i = n,
                          !.result.skippedRows = skipped,
                          !.result.success = (skipped = 0)]
     ELSE LET j == CHOOSE i \in ahead : \A m \in ahead : i <= m
          IN [call EXCEPT !.status = "awaitInsert", !.i = j,
                          !.attempts = Append(@, j),
                          !.result.skippedRows = @ + errorsIn(from, j - 1)]

\* Variant: the loop takes the valid rows from the last to the first.
LoopFrom_Descending(call, from) ==
  LET n == Len(call.entries)
      tried == {call.attempts[k] : k \in 1..Len(call.attempts)}
      ahead == call.validIndices \ tried
  IN IF ahead = {}
     THEN LET skipped == n - call.result.importedRows
          IN [call EXCEPT !.status = "returned", !.i = n,
                          !.result.skippedRows = skipped,
                          !.result.success = (skipped = 0)]
     ELSE LET j == CHOOSE i \in ahead : \A m \in ahead : i >= m
          IN [call EXCEPT !.status = "awaitInsert", !.i = j,
                          !.attempts = Append(@, j)]

\* The for loop of importEntries from row index `from` up to its next await
\* (db.insert for the next valid row) or, with no valid row left, its return.
LoopFrom(call, from) ==
  LET n == Len(call.entries)
      ahead == {i \in call.validIndices : i >= from}
  IN IF ahead = {}
     THEN LET skipped == call.result.skippedRows + (n - from)
          IN [call EXCEPT !.status = "returned", !.i = n,
                          !.result.skippedRows = skipped,
                          !.result.success = (skipped = 0)]
     ELSE LET j == CHOOSE i \in ahead : \A m \in ahead : i <= m
          IN [call EXCEPT !.status = "awaitInsert", !.i = j,
                          !.attempts = Append(@, j),
                          !.result.skippedRows = @ + (j - from)]

\* Variant: the result starts with an empty error list.
importEntries_ErrorsUnseeded(call, entries) ==
  LET begin(started) ==
        IF ~dbAvailable
        THEN [started EXCEPT !.status = "returned",
                             !.result = NoDatabaseResult(entries)]
        ELSE LoopFrom(started, 0)
      validated(v) ==
        IF v.threw
        THEN [call EXCEPT !.status = "raised", !.entries = entries,
                          !.message = v.message]
        ELSE begin([call EXCEPT
                      !.entries = entries,
                      !.validationErrors = v.val,
                      !.validIndices = ValidIndices(entries, v.val),
                      !.result =
                        [success |-> TRUE, totalRows |-> Len(entries),
                         importedRows |-> 0, skippedRows |-> 0,
                         errors |-> << >>]])
  IN validated(validateEntries(entries))

\* importEntries(userId, entries) up to its first await or its end.  A throw
\* of validateEntries rejects the promise the async function returns.
importEntries(call, entries) ==
  LET begin(started) ==
        IF ~dbAvailable
        THEN [started EXCEPT !.status = "returned",
                             !.result = NoDatabaseResult(entries)]
        ELSE LoopFrom(started, 0)
      validated(v) ==
        IF v.threw
        THEN [call EXCEPT !.status = "raised", !.entries = entries,
                          !.message = v.message]
        ELSE begin([call EXCEPT
                      !.entries = entries,
                      !.validationErrors = v.val,
                      !.validIndices = ValidIndices(entries, v.val),
                      !.result =
                        [success |-> TRUE, totalRows |-> Len(entries),
                         importedRows |-> 0, skippedRows |-> 0,
                         errors |-> [n \in 1..Len(v.val) |->
                                       [rowIndex |-> v.val[n].index,
                                        error |-> v.val[n].error]]]])
  IN validated(validateEntries(entries))

\* importFromCSV: the try block up to the return of the importEntries
\* promise; its catch covers parseCSV and csvToEntries only, since the
\* promise is returned without await.
importFromCSV(call, content) ==
  LET failed(message) ==
        [call EXCEPT !.status = "returned",
                     !.result = FormatErrorResult("CSV parsing failed: ", message)]
      converted(entries) ==
        IF entries.threw THEN failed(entries.message)
        ELSE importEntries(call, entries.val)
      parsed(rows) ==
        IF rows.threw THEN failed(rows.message)
        ELSE converted(csvToEntries(rows.val))
  IN parsed(parseCSV(content))

importFromJSON(call, content) ==
  LET parsed(entries) ==
        IF entries.threw
        THEN [call EXCEPT !.status = "returned",
                          !.result = FormatErrorResult("JSON parsing failed: ",
                                                       entries.message)]
        ELSE importEntries(call, entries.val)
  IN parsed(parseJSON(content))

\* One line of exportAsCSV's output for a stored row.
CSVLine(row) ==
  LET q == <<"\"">>
      field(x) == q \o x \o q
      url == IF Truthy(row.url) THEN row.url.v ELSE << >>
      metadata == IF Truthy(row.metadata) THEN row.metadata.v ELSE << >>
  IN field(row.type.v) \o <<",">> \o field(DoubleQuotes(row.title.v)) \o <<",">>
       \o field(DoubleQuotes(row.content.v)) \o <<",">> \o field(url)
       \o <<",">> \o field(metadata) \o <<"\n">>

CSVHeader == K_type \o <<",">> \o K_title \o <<",">> \o K_content \o <<",">>
               \o K_url \o <<",">> \o K_metadata \o <<"\n">>

\* const entries = await db.select().from(knowledgeEntries)
SelectEntries(table, userId) == table

exportAsCSV(table, userId) ==
  LET entries == SelectEntries(table, userId)
  IN IF ~dbAvailable \/ entries = << >> THEN << >>
     ELSE CSVHeader \o Concat([n \in 1..Len(entries) |-> CSVLine(entries[n])])

\* The record exportAsJSON builds for a stored row; ok is FALSE when
\* JSON.parse of the stored metadata throws.
ExportRecord(row) ==
  LET record(parsed) ==
        [ok |-> ~Truthy(row.metadata) \/ parsed.ok,
         val |-> Obj(<< <<K_type, row.type>>, <<K_title, row.title>>,
                        <<K_content, row.content>>, <<K_url, row.url>>,
                        <<K_metadata, IF Truthy(row.metadata) /\ parsed.ok
                                      THEN parsed.val ELSE Undef>> >>)]
  IN record(JSONparse(row.metadata.v))

exportAsJSON(table, userId) ==
  LET written(records) ==
        IF \E n \in 1..Len(records) : ~records[n].ok
        THEN Thrown(SyntaxErrorMessage)
        ELSE Returned(JSONstringifyPretty(
                        Arr([n \in 1..Len(records) |-> records[n].val])))
      selected(entries) ==
        IF ~dbAvailable \/ entries = << >> THEN Returned(<<"[", "]">>)
        ELSE written([n \in 1..Len(entries) |-> ExportRecord(entries[n])])
  IN selected(SelectEntries(table, userId))

(* ---------------------------------------------------------------------- *)
(* Inputs                                                                   *)
(* ---------------------------------------------------------------------- *)
A == <<"a">>
B == <<"b">>
NL == <<"\n">>
Header3 == <<"t", "y", "p", "e", ",", "t", "i", "t", "l", "e", ",", "c", "o", "n", "t", "e", "n", "t">>
Header5 == <<"t", "y", "p", "e", ",", "t", "i", "t", "l", "e", ",", "c", "o", "n", "t", "e", "n", "t", ",", "u", "r", "l", ",", "m", "e", "t", "a", "d", "a", "t", "a">>

LongTitle == [n \in 1..(MaxTitleLength + 1) |-> "x"]
FullTitle == [n \in 1..MaxTitleLength |-> "x"]

\* generateCSVTemplate(): the header and three example rows, each joined with
\* commas and ended by a newline.
TemplateHeaders == <<K_type, K_title, K_content, K_url, K_metadata>>
TemplateExamples ==
  << << <<"w", "e", "b", "s", "i", "t", "e">>, <<"M", "y", " ", "M", "u", "s", "i", "c", " ", "W", "e", "b", "s", "i", "t", "e">>,
        <<"A", " ", "w", "e", "b", "s", "i", "t", "e", " ", "s", "h", "o", "w", "c", "a", "s", "i", "n", "g", " ", "m", "y", " ", "m", "u", "s", "i", "c", " ", "a", "n", "d", " ", "a", "r", "t", "i", "s", "t", " ", "p", "r", "o", "f", "i", "l", "e">>,
        <<"h", "t", "t", "p", "s", ":", "/", "/", "e", "x", "a", "m", "p", "l", "e", ".", "c", "o", "m">>, <<"{", "\"", "c", "a", "t", "e", "g", "o", "r", "y", "\"", ":", "\"", "m", "u", "s", "i", "c", "\"", "}">> >>,
     << <<"b", "o", "o", "k">>, <<"M", "y", " ", "A", "u", "t", "o", "b", "i", "o", "g", "r", "a", "p", "h", "y">>,
        <<"T", "h", "e", " ", "s", "t", "o", "r", "y", " ", "o", "f", " ", "m", "y", " ", "l", "i", "f", "e", " ", "a", "n", "d", " ", "j", "o", "u", "r", "n", "e", "y", " ", "i", "n", " ", "m", "u", "s", "i", "c">>,
        <<"h", "t", "t", "p", "s", ":", "/", "/", "a", "m", "a", "z", "o", "n", ".", "c", "o", "m", "/", ".", ".", ".">>, <<"{", "\"", "a", "u", "t", "h", "o", "r", "\"", ":", "\"", "M", "e", "\"", ",", "\"", "y", "e", "a", "r", "\"", ":", "2", "0", "2", "4", "}">> >>,
     << <<"m", "u", "s", "i", "c">>, <<"G", "o", "s", "p", "e", "l", " ", "A", "l", "b", "u", "m">>,
        <<"M", "y", " ", "l", "a", "t", "e", "s", "t", " ", "g", "o", "s", "p", "e", "l", " ", "m", "u", "s", "i", "c", " ", "a", "l", "b", "u", "m", " ", "w", "i", "t", "h", " ", "1", "0", " ", "t", "r", "a", "c", "k", "s">>,
        <<"h", "t", "t", "p", "s", ":", "/", "/", "s", "p", "o", "t", "i", "f", "y", ".", "c", "o", "m", "/", ".", ".", ".">>, <<"{", "\"", "g", "e", "n", "r", "e", "\"", ":", "\"", "g", "o", "s", "p", "e", "l", "\"", ",", "\"", "t", "r", "a", "c", "k", "s", "\"", ":", "1", "0", "}">> >> >>
generateCSVTemplate ==
  Join(TemplateHeaders, <<",">>) \o <<"\n">>
    \o Concat([n \in 1..Len(TemplateExamples) |->
                 Join(TemplateExamples[n], <<",">>) \o <<"\n">>])

CsvInputs ==
  { << >>,
    generateCSVTemplate,
    Header3,
    Header3 \o NL \o <<"m", "u", "s", "i", "c", ",", "T", "r", "a", "c", "k", " ", "1", ",", "M", "y", " ", "s", "o", "n", "g">>,
    Header3 \o NL \o NL \o <<" ", " ">> \o NL \o <<" ", "w", "e", "b", "s", "i", "t", "e", " ", ",", " ", "a", " ", ",", " ", "b", " ">> \o NL,
    <<"t", "i", "t", "l", "e", ",", "c", "o", "n", "t", "e", "n", "t">> \o NL \o <<"a", ",", "b", ",", "c">>,
    <<"t", "i", "t", "l", "e", ",", "c", "o", "n", "t", "e", "n", "t", ",", "t", "i", "t", "l", "e", ",">> \o K_proto
      \o NL \o <<"x", ",", "b", ",", "a", ",", "d">>,
    Header3 \o NL \o <<"b", "o", "g", "u", "s", ",", "a", ",", "b">> \o NL \o <<"m", "u", "s", "i", "c", ",", ",", "b">>,
    Header3 \o NL \o <<"m", "u", "s", "i", "c", ",", "a">> \o NL \o <<"w", "e", "b", "s", "i", "t", "e", ",", "a", ",", "b">>,
    Header3 \o NL \o <<"b", "l", "o", "g", ",">> \o LongTitle \o <<",", "b">>,
    Header5 \o NL \o <<"b", "o", "o", "k", ",", "a", ",", "b", ",", "u", ",", "{", "\"", "k", "\"", ":", "1", "}">>,
    Header5 \o NL \o <<"w", "e", "b", "s", "i", "t", "e", ",", "a", ",", "b">> \o NL \o <<"b", "o", "o", "k", ",", "a", ",", "b", ",", "u", ",", "{", "b", "a", "d">>,
    Header3 \o NL \o <<"w", "e", "b", "s", "i", "t", "e", ",", "a", ",", "b">> \o NL
      \o <<"b", "o", "g", "u", "s", ",", ",", "b">> \o NL
      \o <<"w", "e", "b", "s", "i", "t", "e", ",", "a", ",", "b">> }

EntryPlain ==
  Obj(<< <<K_type, Str(T_website)>>, <<K_title, Str(A)>>, <<K_content, Str(B)>> >>)
EntryFull ==
  Obj(<< <<K_type, Str(T_book)>>, <<K_title, Str(A)>>, <<K_content, Str(B)>>,
         <<K_url, Str(<<"u">>)>>,
         <<K_metadata, Obj(<< << <<"k">>, Num(<<"1">>) >> >>)>> >>)
EntryBlank ==
  Obj(<< <<K_type, Str(T_website)>>, <<K_title, Str(<< >>)>>,
         <<K_content, Str(<<" ">>)>> >>)
EntryOf(type, title, content) ==
  Obj(<< <<K_type, type>>, <<K_title, title>>, <<K_content, content>> >>)

\* Records combined freely into batches of up to MaxBatch.
CoreRecords == {EntryPlain, EntryFull, EntryBlank, Null}

\* Records imported as a batch of one.
SingleRecords ==
  { EntryOf(Str(T_website), Str(<< >>), Str(<<"x">>)),
    EntryOf(Str(<<"b", "o", "g", "u", "s">>), Str(<<"T">>), Str(<<"C">>)),
    EntryOf(Str(<<"b", "o", "g", "u", "s">>), Str(LongTitle), Str(B)),
    EntryOf(Str(<<"b", "o", "g", "u", "s">>), Str(FullTitle), Str(B)),
    EntryOf(Str(T_music), Str(LongTitle), Str(<< >>)),
    EntryOf(Str(T_blog), Str(<<"\"", "a">>), Str(<<"b", "\"", "c">>)),
    EntryOf(Str(<< >>), Str(A), Str(<<" ">>)),
    Obj(<< <<K_title, Str(A)>>, <<K_content, Str(B)>> >>),
    EntryOf(Str(T_website), Num(<<"5">>), Str(B)),
    EntryOf(Num(<<"0">>), Num(<<"0">>), Bool(FalseText)),
    Str(A),
    Num(<<"1">>) }

RECURSIVE SeqsUpTo(_, _)
SeqsUpTo(S, n) ==
  IF n = 0 THEN {<< >>}
  ELSE LET shorter == SeqsUpTo(S, n - 1)
       IN shorter \cup {Append(s, x) : s \in shorter, x \in S}

JsonBatches ==
  SeqsUpTo(CoreRecords, MaxBatch) \cup {<<r>> : r \in SingleRecords}

JsonInputs ==
  {JSONstringify(Arr(batch)) : batch \in JsonBatches}
    \cup { << >>, <<"[">>, <<"[", "1", ",", "]">>, <<"{", "}">>, <<"\"", "a", "\"">>, <<" ", "[", " ", "]", " ">> }

InsertFailureMessages == {<<"connection lost">>}

(* ---------------------------------------------------------------------- *)
(* Bot checkout service (services/botCheckout.ts): pure functions.          *)
(* Dates are clock readings; a subscription lasts MonthLength or            *)
(* YearLength ticks.  Reads of the tables succeed; writes may be rejected.  *)
(* ---------------------------------------------------------------------- *)
\* ctx.user.id.toString(), as the router passes the user to the service.
BotUserIds == {<<"1">>, <<"2">>}
BotIds == {1, 2}
SubscriptionTypes == {"monthly", "yearly"}
PaypalSubscriptionIds == {<<"I-1">>}

MonthLength == 1
YearLength == 2
\* Largest clock reading.
MaxTime == 2
\* Largest number of rows of userBotPurchases and of paypalSubscriptions.
MaxPurchases == 2

DigitSeq == <<"0", "1", "2", "3", "4", "5", "6", "7", "8", "9">>
DigitValue(d) == (CHOOSE n \in 1..10 : DigitSeq[n] = d) - 1

\* parseInt(userId, 10) of a text of decimal digits.
RECURSIVE ParseInt(_)
ParseInt(s) ==
  IF Len(s) = 0 THEN 0
  ELSE ParseInt(SubSeq(s, 1, Len(s) - 1)) * 10 + DigitValue(s[Len(s)])

\* A date column that holds no date.
NoDate == 0 - 1

BotResult(success, message) ==
  [success |-> success, message |-> message, checkoutUrl |-> << >>]
StatusResult(hasSubscription, isActive, expiryDate) ==
  [hasSubscription |-> hasSubscription, isActive |-> isActive,
   expiryDate |-> expiryDate]

IdleBotCall ==
  [op |-> "none", status |-> "idle", userId |-> << >>, botId |-> 0,
   expiryDate |-> NoDate, paypalSubscriptionId |-> << >>, purchaseId |-> 0,
   result |-> BotResult(FALSE, << >>), message |-> << >>]

\* select().from(userBotPurchases).where(and(eq(userId), eq(botId)))
SelectPurchases(table, userIdNum, botId) ==
  SelectSeq(table, LAMBDA p : p.userId = userIdNum /\ p.botId = botId)

\* Variant: the status of the purchase is not part of the condition.
SelectActivePurchases_AnyStatus(table, userIdNum, botId) ==
  SelectSeq(table, LAMBDA p : p.userId = userIdNum /\ p.botId = botId)

\* ... .where(and(eq(userId), eq(botId), eq(status, "active")))
SelectActivePurchases(table, userIdNum, botId) ==
  SelectSeq(table, LAMBDA p : /\ p.userId = userIdNum /\ p.botId = botId
                              /\ p.status = "active")

\* expiryDate.setMonth(+1) or expiryDate.setFullYear(+1) on new Date()
ExpiryFrom(t, subscriptionType) ==
  IF subscriptionType = "monthly" THEN t + MonthLength ELSE t + YearLength

\* The result of createBotCheckout with the database available.
createBotCheckout(table, t, userId, botId) ==
  LET checked(existingPurchase) ==
        IF /\ Len(existingPurchase) > 0
           /\ existingPurchase[1].status = "active"
           /\ existingPurchase[1].expiryDate /= NoDate
           /\ existingPurchase[1].expiryDate > t
        THEN BotResult(FALSE, <<"You already have an active subscription to this bot">>)
        ELSE [success |-> TRUE,
              message |-> <<"Checkout session created successfully">>,
              checkoutUrl |-> <<"https://sandbox.paypal.com/checkoutnow?token=EC-MOCK-",
                                botId, t>>]
  IN checked(SelectPurchases(table, ParseInt(userId), botId))

\* The result of getBotSubscriptionStatus; without database it reports no
\* subscription.
getBotSubscriptionStatus(table, t, userId, botId) ==
  LET found(selected) ==
        IF Len(selected) = 0 THEN StatusResult(FALSE, FALSE, NoDate)
        ELSE StatusResult(TRUE,
                          /\ selected[1].status = "active"
                          /\ selected[1].expiryDate /= NoDate
                          /\ selected[1].expiryDate > t,
                          selected[1].expiryDate)
  IN IF ~dbAvailable THEN StatusResult(FALSE, FALSE, NoDate)
     ELSE found(SelectPurchases(table, ParseInt(userId), botId))

(* ---------------------------------------------------------------------- *)
(* Actions                                                                  *)
(* ---------------------------------------------------------------------- *)
Init ==
  /\ dbAvailable \in BOOLEAN
  /\ store = << >>
  /\ calls = [c \in Callers |-> IdleCall]
  /\ purchases = << >>
  /\ subscriptions = << >>
  /\ now = 0
  /\ botCalls = [c \in Callers |-> IdleBotCall]

\* The caller has no call under way and holds no result.
Idle(c) == calls[c].status = "idle"
\* The call of the caller has ended, with a result or an exception.
Ended(c) == calls[c].status \in {"returned", "raised"}

\* Rows a call may still insert: its valid rows from the awaited one on.
PendingOf(c) ==
  IF calls[c].status = "awaitInsert"
  THEN Cardinality({j \in calls[c].validIndices : j >= calls[c].i}) ELSE 0

RECURSIVE PendingIn(_)
PendingIn(S) ==
  IF S = {} THEN 0
  ELSE LET c == CHOOSE x \in S : TRUE IN PendingOf(c) + PendingIn(S \ {c})

PendingRows == PendingIn(Callers)

CanHold(call) ==
  Len(store) + PendingRows
    + (IF call.status = "awaitInsert" THEN Cardinality(call.validIndices) ELSE 0)
    <= MaxStore

\* The text exported last by this caller, with the rows it was made from.
SourceOf(c, content) ==
  IF /\ calls[c].op = "exportAsCSV"
     /\ calls[c].status = "returned"
     /\ calls[c].output = content
  THEN [exported |-> TRUE, rows |-> calls[c].fetched]
  ELSE NoSource

ImportFromCSV(c, userId, content) ==
  /\ Idle(c) \/ (Ended(c) /\ SourceOf(c, content).exported)
  /\ LET started(next) ==
           /\ CanHold(next)
           /\ calls' = [calls EXCEPT ![c] = next]
     IN started(importFromCSV(
                  [IdleCall EXCEPT !.op = "importFromCSV", !.userId = userId,
                                   !.content = content,
                                   !.source = SourceOf(c, content)],
                  content))
  /\ UNCHANGED <<dbAvailable, store, botVars>>

\* The caller imports the text its last exportAsCSV call returned.
ReimportCSV(c, userId) ==
  /\ calls[c].op = "exportAsCSV"
  /\ calls[c].status = "returned"
  /\ ImportFromCSV(c, userId, calls[c].output)

ImportFromJSON(c, userId, content) ==
  /\ Idle(c)
  /\ LET started(next) ==
           /\ CanHold(next)
           /\ calls' = [calls EXCEPT ![c] = next]
     IN started(importFromJSON(
                  [IdleCall EXCEPT !.op = "importFromJSON", !.userId = userId,
                                   !.content = content],
                  content))
  /\ UNCHANGED <<dbAvailable, store, botVars>>

\* Variant: the calls share one result object, so an insert that resolves is
\* counted in the result of every import in flight.
InsertSucceeds_SharedResult(c) ==
  /\ calls[c].status = "awaitInsert"
  /\ LET call == calls[c]
         counted == [d \in Callers |->
                       IF calls[d].status = "awaitInsert"
                       THEN [calls[d] EXCEPT !.result.importedRows = @ + 1]
                       ELSE calls[d]]
     IN /\ store' = Append(store, InsertValues(call.userId, call.entries[call.i + 1]))
        /\ calls' = [counted EXCEPT ![c] = LoopFrom(counted[c], call.i + 1)]
  /\ UNCHANGED <<dbAvailable, botVars>>

\* The awaited db.insert resolves: the row is in the table, the loop goes on.
InsertSucceeds(c) ==
  /\ calls[c].status = "awaitInsert"
  /\ LET call == calls[c]
     IN /\ store' = Append(store, InsertValues(call.userId, call.entries[call.i + 1]))
        /\ calls' = [calls EXCEPT ![c] =
                       LoopFrom([call EXCEPT !.result.importedRows = @ + 1],
                                call.i + 1)]
  /\ UNCHANGED <<dbAvailable, botVars>>

\* Variant: the first rejected insert ends the loop; the rows not yet reached
\* are counted as skipped.
InsertFails_Aborts(c, message) ==
  /\ calls[c].status = "awaitInsert"
  /\ LET call == calls[c]
         rest == Len(call.entries) - call.i
     IN calls' = [calls EXCEPT ![c] =
                    [call EXCEPT
                       !.status = "returned",
                       !.i = Len(call.entries),
                       !.result.errors =
                         Append(@, [rowIndex |-> call.i,
                                    error |-> <<"Database insert failed: ">> \o message]),
                       !.result.skippedRows = @ + rest,
                       !.result.success = FALSE]]
  /\ UNCHANGED <<dbAvailable, store, botVars>>

\* The awaited db.insert rejects: the catch block records the row.
InsertFails(c, message) ==
  /\ calls[c].status = "awaitInsert"
  /\ LET call == calls[c]
         caught == [call EXCEPT
                      !.result.errors =
                        Append(@, [rowIndex |-> call.i,
                                   error |-> <<"Database insert failed: ">> \o message]),
                      !.result.skippedRows = @ + 1]
     IN calls' = [calls EXCEPT ![c] = LoopFrom(caught, call.i + 1)]
  /\ UNCHANGED <<dbAvailable, store, botVars>>

ExportAsCSV(c, userId) ==
  /\ Idle(c)
  /\ calls' = [calls EXCEPT ![c] =
                 [IdleCall EXCEPT !.op = "exportAsCSV", !.userId = userId,
                                  !.status = "returned",
                                  !.fetched = IF dbAvailable
                                              THEN SelectEntries(store, userId)
                                              ELSE << >>,
                                  !.output = exportAsCSV(store, userId)]]
  /\ UNCHANGED <<dbAvailable, store, botVars>>

ExportAsJSON(c, userId) ==
  /\ Idle(c)
  /\ LET ended(out) ==
           calls' = [calls EXCEPT ![c] =
                       [IdleCall EXCEPT !.op = "exportAsJSON", !.userId = userId,
                                        !.status = IF out.threw THEN "raised"
                                                   ELSE "returned",
                                        !.message = out.message,
                                        !.fetched = IF dbAvailable
                                                    THEN SelectEntries(store, userId)
                                                    ELSE << >>,
                                        !.output = out.val]]
     IN ended(exportAsJSON(store, userId))
  /\ UNCHANGED <<dbAvailable, store, botVars>>

\* The handler hands the outcome of the call to the client; the caller may
\* make its next request.
Complete(c) ==
  /\ Ended(c)
  /\ calls' = [calls EXCEPT ![c] = IdleCall]
  /\ UNCHANGED <<dbAvailable, store, botVars>>

\* Requests are served one at a time by caller c1.
Next ==
  \E c \in {"c1"} :
    \/ \E userId \in UserIds, content \in CsvInputs : ImportFromCSV(c, userId, content)
    \/ \E userId \in UserIds : ReimportCSV(c, userId)
    \/ \E userId \in UserIds, content \in JsonInputs : ImportFromJSON(c, userId, content)
    \/ InsertSucceeds(c)
    \/ \E message \in InsertFailureMessages : InsertFails(c, message)
    \/ \E userId \in UserIds : ExportAsCSV(c, userId)
    \/ \E userId \in UserIds : ExportAsJSON(c, userId)
    \/ Complete(c)

Spec == Init /\ [][Next]_vars

(* ---------------------------------------------------------------------- *)
(* Bot checkout service: actions.  A call is a step up to each awaited      *)
(* write; every error inside a try block is rethrown as a TRPCError.        *)
(* ---------------------------------------------------------------------- *)
BotIdle(c) == botCalls[c].status = "idle"
BotEnded(c) == botCalls[c].status \in {"returned", "raised"}

BotReturned(call, result) == [call EXCEPT !.status = "returned", !.result = result]
\* throw new TRPCError({ code: "INTERNAL_SERVER_ERROR", message })
BotRaised(call, message) == [call EXCEPT !.status = "raised", !.message = message]

CreateBotCheckout(c, userId, botId) ==
  /\ BotIdle(c)
  /\ LET call == [IdleBotCall EXCEPT !.op = "createBotCheckout",
                                     !.userId = userId, !.botId = botId]
     IN botCalls' =
          [botCalls EXCEPT ![c] =
             IF ~dbAvailable
             THEN BotRaised(call, <<"Failed to create checkout session">>)
             ELSE BotReturned(call, createBotCheckout(purchases, now, userId, botId))]
  /\ UNCHANGED <<dbAvailable, importVars, purchases, subscriptions, now>>

\* completeBotSubscription up to its first insert.
CompleteBotSubscription(c, userId, botId, paypalSubscriptionId, subscriptionType) ==
  /\ BotIdle(c)
  /\ Len(purchases) < MaxPurchases
  /\ Len(subscriptions) < MaxPurchases
  /\ LET call == [IdleBotCall EXCEPT !.op = "completeBotSubscription",
                                     !.userId = userId, !.botId = botId,
                                     !.paypalSubscriptionId = paypalSubscriptionId]
     IN botCalls' =
          [botCalls EXCEPT ![c] =
             IF ~dbAvailable
             THEN BotRaised(call, <<"Failed to complete subscription">>)
             ELSE [call EXCEPT !.status = "awaitSubscriptionInsert",
                               !.expiryDate = ExpiryFrom(now, subscriptionType)]]
  /\ UNCHANGED <<dbAvailable, importVars, purchases, subscriptions, now>>

\* await db.insert(paypalSubscriptions) resolves.
SubscriptionInsertSucceeds(c) ==
  /\ botCalls[c].status = "awaitSubscriptionInsert"
  /\ subscriptions' =
       Append(subscriptions,
              [userId |-> ParseInt(botCalls[c].userId),
               paypalSubscriptionId |-> botCalls[c].paypalSubscriptionId,
               planId |-> "bot-subscription", tierId |-> 1,
               status |-> "active", createdAt |-> now])
  /\ botCalls' = [botCalls EXCEPT ![c].status = "awaitPurchaseInsert"]
  /\ UNCHANGED <<dbAvailable, importVars, purchases, now>>

\* await db.insert(userBotPurchases) resolves.
PurchaseInsertSucceeds(c) ==
  /\ botCalls[c].status = "awaitPurchaseInsert"
  /\ purchases' =
       Append(purchases,
              [id |-> Len(purchases) + 1,
               userId |-> ParseInt(botCalls[c].userId),
               botId |-> botCalls[c].botId,
               expiryDate |-> botCalls[c].expiryDate,
               status |-> "active"])
  /\ botCalls' =
       [botCalls EXCEPT ![c] =
          BotReturned(@, BotResult(TRUE, <<"Bot subscription activated successfully">>))]
  /\ UNCHANGED <<dbAvailable, importVars, subscriptions, now>>

\* Either insert of completeBotSubscription rejects.
CompleteInsertFails(c) ==
  /\ botCalls[c].status \in {"awaitSubscriptionInsert", "awaitPurchaseInsert"}
  /\ botCalls' =
       [botCalls EXCEPT ![c] = BotRaised(@, <<"Failed to complete subscription">>)]
  /\ UNCHANGED <<dbAvailable, importVars, purchases, subscriptions, now>>

\* cancelBotSubscription up to its update.
CancelBotSubscription(c, userId, botId) ==
  /\ BotIdle(c)
  /\ LET call == [IdleBotCall EXCEPT !.op = "cancelBotSubscription",
                                     !.userId = userId, !.botId = botId]
         selected(active) ==
           IF Len(active) = 0
           THEN BotReturned(call, BotResult(FALSE, <<"No active subscription found">>))
           ELSE [call EXCEPT !.status = "awaitUpdate", !.purchaseId = active[1].id]
     IN botCalls' =
          [botCalls EXCEPT ![c] =
             IF ~dbAvailable
             THEN BotRaised(call, <<"Failed to cancel subscription">>)
             ELSE selected(SelectActivePurchases(purchases, ParseInt(userId), botId))]
  /\ UNCHANGED <<dbAvailable, importVars, purchases, subscriptions, now>>

\* Variant: the cancellation reports success without writing the status.
CancelUpdateSucceeds_NoWrite(c) ==
  /\ botCalls[c].status = "awaitUpdate"
  /\ botCalls' =
       [botCalls EXCEPT ![c] =
          BotReturned(@, BotResult(TRUE, <<"Bot subscription expired successfully">>))]
  /\ UNCHANGED <<dbAvailable, importVars, purchases, subscriptions, now>>

\* await db.update(userBotPurchases).set({ status: "expired" }) resolves.
CancelUpdateSucceeds(c) ==
  /\ botCalls[c].status = "awaitUpdate"
  /\ purchases' =
       [n \in 1..Len(purchases) |->
          IF purchases[n].id = botCalls[c].purchaseId
          THEN [purchases[n] EXCEPT !.status = "expired"]
          ELSE purchases[n]]
  /\ botCalls' =
       [botCalls EXCEPT ![c] =
          BotReturned(@, BotResult(TRUE, <<"Bot subscription expired successfully">>))]
  /\ UNCHANGED <<dbAvailable, importVars, subscriptions, now>>

CancelUpdateFails(c) ==
  /\ botCalls[c].status = "awaitUpdate"
  /\ botCalls' =
       [botCalls EXCEPT ![c] = BotRaised(@, <<"Failed to cancel subscription">>)]
  /\ UNCHANGED <<dbAvailable, importVars, purchases, subscriptions, now>>

GetBotSubscriptionStatus(c, userId, botId) ==
  /\ BotIdle(c)
  /\ botCalls' =
       [botCalls EXCEPT ![c] =
          BotReturned([IdleBotCall EXCEPT !.op = "getBotSubscriptionStatus",
                                          !.userId = userId, !.botId = botId],
                      getBotSubscriptionStatus(purchases, now, userId, botId))]
  /\ UNCHANGED <<dbAvailable, importVars, purchases, subscriptions, now>>

\* The outcome of the call reaches the router; the caller may call again.
BotCallEnds(c) ==
  /\ BotEnded(c)
  /\ botCalls' = [botCalls EXCEPT ![c] = IdleBotCall]
  /\ UNCHANGED <<dbAvailable, importVars, purchases, subscriptions, now>>

\* Time passes.
Tick ==
  /\ now < MaxTime
  /\ now' = now + 1
  /\ UNCHANGED <<dbAvailable, importVars, purchases, subscriptions, botCalls>>

\* Bot checkout requests are served one at a time by caller c1.
BotNext ==
  \/ \E c \in {"c1"} :
       \/ \E userId \in BotUserIds, botId \in BotIds :
            CreateBotCheckout(c, userId, botId)
       \/ \E userId \in BotUserIds, botId \in BotIds,
             paypalSubscriptionId \in PaypalSubscriptionIds,
             subscriptionType \in SubscriptionTypes :
            CompleteBotSubscription(c, userId, botId, paypalSubscriptionId,
                                    subscriptionType)
       \/ SubscriptionInsertSucceeds(c)
       \/ PurchaseInsertSucceeds(c)
       \/ CompleteInsertFails(c)
       \/ \E userId \in BotUserIds, botId \in BotIds :
            CancelBotSubscription(c, userId, botId)
       \/ CancelUpdateSucceeds(c)
       \/ CancelUpdateFails(c)
       \/ \E userId \in BotUserIds, botId \in BotIds :
            GetBotSubscriptionStatus(c, userId, botId)
       \/ BotCallEnds(c)
  \/ Tick

BotSpec == Init /\ [][BotNext]_vars

(* ---------------------------------------------------------------------- *)
(* Two requests in flight: the service object is shared by all requests    *)
(* (export const bulkImportService), each awaited insert is a point where   *)
(* the other request may run.                                               *)
(* ---------------------------------------------------------------------- *)
PairCsvInputs ==
  { Header3 \o NL \o <<"m", "u", "s", "i", "c", ",", "T", "r", "a", "c", "k", " ", "1", ",", "M", "y", " ", "s", "o", "n", "g">>,
    Header3 \o NL \o <<"m", "u", "s", "i", "c", ",", "a">> \o NL \o <<"w", "e", "b", "s", "i", "t", "e", ",", "a", ",", "b">> }

PairJsonInputs ==
  { JSONstringify(Arr(<<EntryFull>>)),
    JSONstringify(Arr(<<EntryPlain, EntryBlank>>)) }

PairNext ==
  \E c \in Callers :
    \/ \E userId \in UserIds, content \in PairCsvInputs : ImportFromCSV(c, userId, content)
    \/ \E userId \in UserIds, content \in PairJsonInputs : ImportFromJSON(c, userId, content)
    \/ InsertSucceeds(c)
    \/ \E message \in InsertFailureMessages : InsertFails(c, message)
    \/ Complete(c)

PairSpec == Init /\ [][PairNext]_vars

(* ---------------------------------------------------------------------- *)
(* Properties                                                               *)
(* ---------------------------------------------------------------------- *)
ImportOps == {"importFromCSV", "importFromJSON"}
ExportOps == {"exportAsCSV", "exportAsJSON"}

\* The calls that have returned an ImportResult.
ImportReturned(c) == calls[c].op \in ImportOps /\ calls[c].status = "returned"

\* C1 (row accounting): every ImportResult returned by an import operation
\* has totalRows = importedRows + skippedRows, whatever path produced it.
RowAccounting ==
  \A c \in Callers :
    ImportReturned(c)
      => calls[c].result.totalRows
           = calls[c].result.importedRows + calls[c].result.skippedRows

\* A returned result that mixes an imported row, a row rejected by the
\* validator and a row whose insert failed.
RowAccountingWitness ==
  \E c \in Callers :
    /\ ImportReturned(c)
    /\ calls[c].result.importedRows >= 1
    /\ calls[c].validationErrors /= << >>
    /\ \E n \in 1..Len(calls[c].result.errors) :
         calls[c].result.errors[n].error[1] = "Database insert failed: "

\* The parses and conversions of the texts of the inputs, computed once; a
\* text that is not an input (a re-imported export) is parsed where it is met.
CsvParses == [content \in CsvInputs |-> parseCSV(content)]
ParsedCSV(content) ==
  IF content \in CsvInputs THEN CsvParses[content] ELSE parseCSV(content)
CsvConversions ==
  [content \in CsvInputs |->
     IF CsvParses[content].threw THEN CsvParses[content]
     ELSE csvToEntries(CsvParses[content].val)]
ConvertedCSV(content) ==
  IF content \in CsvInputs THEN CsvConversions[content]
  ELSE csvToEntries(parseCSV(content).val)
JsonParses == [content \in JsonInputs |-> parseJSON(content)]
ParsedJSON(content) ==
  IF content \in JsonInputs THEN JsonParses[content] ELSE parseJSON(content)
JsonTexts == [content \in JsonInputs |-> JSONparse(content)]
ParsedText(content) ==
  IF content \in JsonInputs THEN JsonTexts[content] ELSE JSONparse(content)

\* The text of call c was parsed and mapped, so that importEntries was called.
Entered(c) ==
  \/ /\ calls[c].op = "importFromCSV"
     /\ ~ParsedCSV(calls[c].content).threw
     /\ ~ConvertedCSV(calls[c].content).threw
  \/ /\ calls[c].op = "importFromJSON"
     /\ ~ParsedJSON(calls[c].content).threw

\* C2 as stated (success iff zero skipped): in every ImportResult returned by
\* an import operation, success is true exactly when skippedRows is 0,
\* format-error and storage-unavailable results included.
SuccessIffZeroSkipped ==
  \A c \in Callers :
    ImportReturned(c)
      => (calls[c].result.success <=> calls[c].result.skippedRows = 0)

\* C2 as amended: a successful result has skippedRows = 0, and a result that
\* importEntries returns with storage available is successful exactly when
\* skippedRows = 0.
SuccessIffZeroSkippedAfterLoop ==
  \A c \in Callers :
    ImportReturned(c)
      => /\ calls[c].result.success => calls[c].result.skippedRows = 0
         /\ (Entered(c) /\ dbAvailable)
              => (calls[c].result.skippedRows = 0 => calls[c].result.success)

\* The loop ran over a batch with an invalid row and an inserted row; its
\* result is unsuccessful.
SuccessIffZeroSkippedWitness ==
  \E c \in Callers :
    /\ ImportReturned(c) /\ Entered(c) /\ dbAvailable
    /\ calls[c].result.importedRows >= 1
    /\ calls[c].result.skippedRows >= 1
    /\ ~calls[c].result.success

\* The validation rules of the data model, on a stored row.
RowPassesRules(row) ==
  /\ IsString(row.type) /\ IsString(row.title) /\ IsString(row.content)
  /\ row.type.v \in {T_website, T_book, T_music, T_artist, T_feature, T_blog}
  /\ Trim(row.title.v) /= << >>
  /\ Len(row.title.v) <= 255
  /\ Trim(row.content.v) /= << >>

\* C3 (no invalid entry is persisted): every stored row passes every
\* validation rule, and no row with a validator error was passed to insert.
NoInvalidEntryPersisted ==
  /\ \A n \in 1..Len(store) : RowPassesRules(store[n])
  /\ \A c \in Callers :
       \A k \in 1..Len(calls[c].attempts) :
         EntryErrors(calls[c].entries[calls[c].attempts[k] + 1],
                     calls[c].attempts[k]) = << >>

\* A batch with a rejected row has finished and one of its rows is stored.
NoInvalidEntryPersistedWitness ==
  \E c \in Callers :
    /\ ImportReturned(c)
    /\ calls[c].validationErrors /= << >>
    /\ calls[c].result.importedRows >= 1
    /\ store /= << >>

OwnedBy(rows, userId) == SelectSeq(rows, LAMBDA row : row.userId = userId)

\* The text an export of exactly the given rows consists of.
CSVTextOf(rows) ==
  IF rows = << >> THEN << >>
  ELSE CSVHeader \o Concat([n \in 1..Len(rows) |-> CSVLine(rows[n])])
JSONTextOf(rows) ==
  IF rows = << >> THEN <<"[", "]">>
  ELSE JSONstringifyPretty(Arr([n \in 1..Len(rows) |-> ExportRecord(rows[n]).val]))

\* C4 (owner isolation of export): the text returned by exportAsCSV(userId)
\* or exportAsJSON(userId) is the serialization of exactly the stored rows
\* owned by userId; rows of other owners do not appear in it.
ExportOwnerIsolation ==
  \A c \in Callers :
    (calls[c].op \in ExportOps /\ calls[c].status = "returned")
      => calls[c].output =
           IF calls[c].op = "exportAsCSV"
           THEN CSVTextOf(OwnedBy(calls[c].fetched, calls[c].userId))
           ELSE JSONTextOf(OwnedBy(calls[c].fetched, calls[c].userId))

HasChar(s, ch) == \E n \in 1..Len(s) : s[n] = ch
CleanRow(row) ==
  /\ ~HasChar(row.title.v, ",") /\ ~HasChar(row.title.v, "\"")
  /\ ~HasChar(row.content.v, ",") /\ ~HasChar(row.content.v, "\"")

\* The five fields of an entry, and the fields of the entry a stored row
\* was imported from (an absent url or metadata is undefined).
FieldsOf(entry) ==
  [type |-> Get(entry, K_type), title |-> Get(entry, K_title),
   content |-> Get(entry, K_content), url |-> Get(entry, K_url),
   metadata |-> Get(entry, K_metadata)]
OriginalFields(row) ==
  [type |-> row.type, title |-> row.title, content |-> row.content,
   url |-> IF Nullish(row.url) THEN Undef ELSE row.url,
   metadata |-> IF Nullish(row.metadata) THEN Undef
                ELSE JSONparse(row.metadata.v).val]

\* C5 (round trip): importing the text exportAsCSV produced for rows whose
\* title and content hold no comma and no quote yields, through parseCSV and
\* csvToEntries, entries equal field for field to those rows, in order.
CSVRoundTrip ==
  \A c \in Callers :
    ( /\ calls[c].op = "importFromCSV"
      /\ calls[c].source.exported
      /\ \A n \in 1..Len(calls[c].source.rows) : CleanRow(calls[c].source.rows[n]) )
      => /\ Len(calls[c].entries) = Len(calls[c].source.rows)
         /\ \A n \in 1..Len(calls[c].source.rows) :
              FieldsOf(calls[c].entries[n]) = OriginalFields(calls[c].source.rows[n])

\* C6 (row-level errors never raise): an import whose text parses at the top
\* level completes by returning an ImportResult; it never ends in an
\* exception, whatever its rows or records hold.
RowErrorsNeverRaise ==
  \A c \in Callers :
    calls[c].op \in ImportOps => calls[c].status /= "raised"

\* The errors validateEntries produces for call c are all in its result.
ValidationErrorsReported(c) ==
  LET v == validateEntries(calls[c].entries).val
  IN \A n \in 1..Len(v) :
       \E m \in 1..Len(calls[c].result.errors) :
         calls[c].result.errors[m] = [rowIndex |-> v[n].index, error |-> v[n].error]

\* C7 as stated (all validation violations are reported): the result of every
\* importEntries call holds each {index, error} of validateEntries.
AllViolationsReported ==
  \A c \in Callers :
    (ImportReturned(c) /\ Entered(c)) => ValidationErrorsReported(c)

\* C7 as amended: the same, for the calls made with storage available.
AllViolationsReportedWithStorage ==
  \A c \in Callers :
    (ImportReturned(c) /\ Entered(c) /\ dbAvailable) => ValidationErrorsReported(c)

\* A finished batch with several validator errors and a failed insert.
AllViolationsReportedWitness ==
  \E c \in Callers :
    /\ ImportReturned(c) /\ Entered(c) /\ dbAvailable
    /\ Len(calls[c].validationErrors) >= 2
    /\ Len(calls[c].result.errors) > Len(calls[c].validationErrors)

\* C8 (storage unavailable short-circuit): with the storage handle absent,
\* importEntries on N entries returns success false, totalRows N,
\* importedRows 0, skippedRows N and the single error "Database not
\* initialized" at rowIndex 0, and attempts no insert.
StorageUnavailableShortCircuit ==
  \A c \in Callers :
    (Entered(c) /\ ~dbAvailable /\ calls[c].status /= "raised")
      => /\ calls[c].status = "returned"
         /\ calls[c].result =
              [success |-> FALSE, totalRows |-> Len(calls[c].entries),
               importedRows |-> 0, skippedRows |-> Len(calls[c].entries),
               errors |-> <<[rowIndex |-> 0,
                             error |-> <<"Database not initialized">>]>>]
         /\ calls[c].attempts = << >>
         /\ store = << >>

\* A batch of two rows, one of them valid, met absent storage.
StorageUnavailableWitness ==
  \E c \in Callers :
    /\ ImportReturned(c) /\ Entered(c) /\ ~dbAvailable
    /\ Len(calls[c].entries) = 2
    /\ Len(calls[c].validationErrors) >= 1
    /\ EntryErrors(calls[c].entries[1], 0) = << >>

NonBlankLines(s) == SelectSeq(Split(s, "\n"), LAMBDA line : Trim(line) /= << >>)
KeptLineTable == [content \in CsvInputs |-> NonBlankLines(content)]
KeptLines(content) ==
  IF content \in CsvInputs THEN KeptLineTable[content] ELSE NonBlankLines(content)

\* The text of call c has not the expected shape: fewer than two non-empty
\* lines, or JSON text that is malformed or not an array.
FormatError(c) ==
  IF calls[c].op = "importFromCSV" THEN Len(KeptLines(calls[c].content)) < 2
  ELSE \/ ~ParsedText(calls[c].content).ok
       \/ ParsedText(calls[c].content).val.k /= "array"

\* C9 (format errors are whole-batch and degenerate): an import of text that
\* has not the expected shape returns success false with totalRows,
\* importedRows and skippedRows 0 and exactly one error, at rowIndex 0, and
\* inserts nothing.
FormatErrorsDegenerate ==
  \A c \in Callers :
    (calls[c].op \in ImportOps /\ FormatError(c))
      => /\ calls[c].status = "returned"
         /\ ~calls[c].result.success
         /\ calls[c].result.totalRows = 0
         /\ calls[c].result.importedRows = 0
         /\ calls[c].result.skippedRows = 0
         /\ Len(calls[c].result.errors) = 1
         /\ calls[c].result.errors[1].rowIndex = 0
         /\ calls[c].attempts = << >>

\* A header-only delimited text was imported while the table held a row.
FormatErrorsWitness ==
  \E c \in Callers :
    /\ calls[c].op = "importFromCSV"
    /\ calls[c].content = Header3
    /\ calls[c].status = "returned"
    /\ store /= << >>

\* The rules of the validator an entry violates.
RulesViolated(entry) ==
  LET type == Get(entry, K_type)
      title == Get(entry, K_title)
      content == Get(entry, K_content)
      blank(x) == ~Truthy(x) \/ Trim(x.v) = << >>
  IN {rule \in {"type", "title", "content", "length"} :
        \/ rule = "type" /\ ~(IsString(type) /\ InSeq(type.v, validTypes))
        \/ rule = "title" /\ blank(title)
        \/ rule = "content" /\ blank(content)
        \/ rule = "length" /\ IsString(title) /\ Len(title.v) > 255}

\* The records of a validator output that carry the given index.
RecordsAt(errors, i) == SelectSeq(errors, LAMBDA e : e.index = i)

\* C10 (validation independence): an entry that violates two rules has
\* exactly two records, with its own index, in the output of validateEntries.
ValidationIndependence ==
  \A c \in Callers :
    (Entered(c) /\ calls[c].status /= "raised")
      => \A n \in 1..Len(calls[c].entries) :
           Cardinality(RulesViolated(calls[c].entries[n])) = 2
             => Len(RecordsAt(calls[c].validationErrors, n - 1)) = 2

\* An entry with an invalid type and a title of more than 255 characters
\* was validated.
ValidationIndependenceWitness ==
  \E c \in Callers :
    /\ Entered(c) /\ calls[c].status /= "raised"
    /\ \E n \in 1..Len(calls[c].entries) :
         RulesViolated(calls[c].entries[n]) = {"type", "length"}
\* C11 (empty export): for an owner without stored entries, and whenever
\* storage is unavailable, exportAsCSV returns the empty string and
\* exportAsJSON returns "[]" without raising, whatever other owners stored.
EmptyExport ==
  \A c \in Callers :
    ( /\ calls[c].op \in ExportOps
      /\ Ended(c)
      /\ ~dbAvailable \/ OwnedBy(calls[c].fetched, calls[c].userId) = << >> )
      => /\ calls[c].status = "returned"
         /\ calls[c].output =
              IF calls[c].op = "exportAsCSV" THEN << >> ELSE <<"[", "]">>
\* The least index of a non-empty set of row indices.
Least(S) == CHOOSE i \in S : \A m \in S : i <= m

\* The insert awaited by call c is rejected in this step: the result gets the
\* record of row k, the row counts as skipped (with the invalid rows passed
\* on the way to the next insert), the table keeps its rows, and the next
\* valid row, if there is one, is attempted.
InsertFailureStep(c) ==
  ( /\ calls[c].status = "awaitInsert"
    /\ Len(calls'[c].result.errors) > Len(calls[c].result.errors) )
    => LET k == calls[c].i
           later == {j \in calls[c].validIndices : j > k}
       IN /\ \E message \in InsertFailureMessages :
               calls'[c].result.errors =
                 Append(calls[c].result.errors,
                        [rowIndex |-> k,
                         error |-> <<"Database insert failed: ">> \o message])
          /\ calls'[c].result.skippedRows
               = calls[c].result.skippedRows + 1 + (calls'[c].i - k - 1)
          /\ \A j \in (k + 1)..(calls'[c].i - 1) : j \notin calls[c].validIndices
          /\ calls'[c].result.importedRows = calls[c].result.importedRows
          /\ store' = store
          /\ IF later = {}
             THEN /\ calls'[c].status = "returned"
                  /\ calls'[c].attempts = calls[c].attempts
             ELSE /\ calls'[c].status = "awaitInsert"
                  /\ calls'[c].i = Least(later)
                  /\ calls'[c].attempts = Append(calls[c].attempts, Least(later))

\* C12 (a failed insert is not fatal to the batch): when the insert of valid
\* row k fails, the result gets {rowIndex k, "Database insert failed: ..."},
\* skippedRows grows by one for that row, every later valid row is still
\* attempted, and the rows already stored stay stored.
PersistenceFailureNonFatal ==
  /\ [][\A c \in Callers : InsertFailureStep(c)]_vars
  /\ [][Len(store') >= Len(store) /\ SubSeq(store', 1, Len(store)) = store]_vars
  /\ [](\A c \in Callers :
          (ImportReturned(c) /\ Entered(c) /\ dbAvailable)
            => {calls[c].attempts[n] : n \in 1..Len(calls[c].attempts)}
                 = calls[c].validIndices)

\* The insert of row 0 failed, the later valid row 2 was attempted and stored.
PersistenceFailureWitness ==
  \E c \in Callers :
    /\ ImportReturned(c)
    /\ calls[c].attempts = <<0, 2>>
    /\ calls[c].result.importedRows = 1
    /\ store /= << >>
    /\ \E n \in 1..Len(calls[c].result.errors) :
         /\ calls[c].result.errors[n].rowIndex = 0
         /\ calls[c].result.errors[n].error[1] = "Database insert failed: "
\* Caller c starts cancelBotSubscription in this step, for a user and bot
\* that have no purchase with status active.
CancelStartsWithoutActive(c) ==
  /\ BotIdle(c)
  /\ botCalls'[c].op = "cancelBotSubscription"
  /\ \A n \in 1..Len(purchases) :
       ~ /\ purchases[n].userId = ParseInt(botCalls'[c].userId)
         /\ purchases[n].botId = botCalls'[c].botId
         /\ purchases[n].status = "active"

\* The call returns success false, "No active subscription found", and the
\* purchases are as they were.
CancelRefused(c) ==
  /\ botCalls'[c].status = "returned"
  /\ botCalls'[c].result.success = FALSE
  /\ botCalls'[c].result.message = <<"No active subscription found">>
  /\ purchases' = purchases

FailureRecords(c) ==
  SubSeq(calls[c].result.errors, Len(calls[c].validationErrors) + 1,
         Len(calls[c].result.errors))

\* The row indices that have at least one validation error in call c.
InvalidIndices(c) ==
  {calls[c].validationErrors[n].index : n \in 1..Len(calls[c].validationErrors)}

\* The counts of a result importEntries returned with storage available.
CountsPerRow(c) ==
  /\ calls[c].result.skippedRows
       = Cardinality(InvalidIndices(c)) + Len(FailureRecords(c))
  /\ calls[c].result.importedRows
       = Len(calls[c].attempts) - Len(FailureRecords(c))
  /\ \A k \in 1..Len(calls[c].attempts) :
       calls[c].attempts[k] \notin InvalidIndices(c)
  /\ \A m \in 1..Len(FailureRecords(c)) :
       /\ FailureRecords(c)[m].rowIndex \notin InvalidIndices(c)
       /\ FailureRecords(c)[m].error[1] = "Database insert failed: "
  /\ \A n \in 1..Len(calls[c].validationErrors) :
       calls[c].result.errors[n] =
         [rowIndex |-> calls[c].validationErrors[n].index,
          error |-> calls[c].validationErrors[n].error]

\* C14 (counts are per row, not per error): with storage available the
\* result of importEntries has skippedRows = rows with a validation error +
\* valid rows whose insert failed, and importedRows = successful inserts; a
\* row with several violations counts once, is never passed to insert and
\* gets no error beyond the validator's.
SkippedCountsPerRow ==
  /\ [](\A c \in Callers :
          (ImportReturned(c) /\ Entered(c) /\ dbAvailable) => CountsPerRow(c))
  /\ [][\A c \in Callers :
          calls[c].status = "awaitInsert"
            => calls'[c].result.importedRows - calls[c].result.importedRows
                 = Len(store') - Len(store)]_vars

\* A returned batch in which a row with two violations was skipped, an
\* insert failed and a row was imported.
SkippedCountsPerRowWitness ==
  \E c \in Callers :
    /\ ImportReturned(c) /\ Entered(c) /\ dbAvailable
    /\ Len(calls[c].validationErrors) = 2
    /\ Cardinality(InvalidIndices(c)) = 1
    /\ Len(FailureRecords(c)) = 1
    /\ calls[c].result.importedRows = 1
    /\ calls[c].result.skippedRows = 2
\* The error texts the rules give for the row at zero-based position r of
\* the batch of call c.
RuleTextsAt(c, r) ==
  {EntryErrors(calls[c].entries[r + 1], r)[m].error :
     m \in 1..Len(EntryErrors(calls[c].entries[r + 1], r))}

\* Every record of the result of call c points at a row of the full batch:
\* a validator record at a row that breaks the rule it names, a failed-insert
\* record at a valid row that was attempted.
RowIndexInOriginal(c) ==
  \A n \in 1..Len(calls[c].result.errors) :
    LET rec == calls[c].result.errors[n]
    IN /\ rec.rowIndex \in 0..(Len(calls[c].entries) - 1)
       /\ IF rec.error[1] = "Database insert failed: "
          THEN /\ RuleTextsAt(c, rec.rowIndex) = {}
               /\ \E k \in 1..Len(calls[c].attempts) :
                    calls[c].attempts[k] = rec.rowIndex
          ELSE rec.error \in RuleTextsAt(c, rec.rowIndex)

\* C15 (rowIndex is the original position): every rowIndex written by the
\* validator or by a failed insert is the zero-based position of the row in
\* the full batch, invalid rows counted; a failed insert records the position
\* of the row whose insert was awaited.
RowIndexIsOriginalPosition ==
  /\ [](\A c \in Callers :
          (calls[c].op \in ImportOps /\ calls[c].status /= "raised"
             /\ Entered(c) /\ dbAvailable)
            => RowIndexInOriginal(c))
  /\ [][\A c \in Callers :
          ( /\ calls[c].status = "awaitInsert"
            /\ Len(calls'[c].result.errors) > Len(calls[c].result.errors) )
            => calls'[c].result.errors[Len(calls'[c].result.errors)].rowIndex
                 = calls[c].attempts[Len(calls[c].attempts)]]_vars

\* A returned batch whose first row is invalid and whose second row, the
\* first valid one, failed to insert: its record says 1, not 0.
RowIndexIsOriginalPositionWitness ==
  \E c \in Callers :
    /\ ImportReturned(c) /\ Entered(c) /\ dbAvailable
    /\ Len(calls[c].validationErrors) >= 1
    /\ calls[c].validationErrors[1].index = 0
    /\ \E n \in 1..Len(calls[c].result.errors) :
         /\ calls[c].result.errors[n].error[1] = "Database insert failed: "
         /\ calls[c].result.errors[n].rowIndex = 1
\* The inserts of call c that have completed or failed.
ResolvedInserts(c) ==
  calls[c].result.importedRows
    + Cardinality({n \in 1..Len(calls[c].result.errors) :
                     calls[c].result.errors[n].error[1] = "Database insert failed: "})

\* The attempts of call c so far are in increasing row order, none is
\* outstanding but possibly the last, and no valid row before the last one
\* attempted was passed over.
AttemptsInOrder(c) ==
  LET a == calls[c].attempts
  IN /\ \A k \in 1..(Len(a) - 1) : a[k] < a[k + 1]
     /\ ResolvedInserts(c)
          = Len(a) - (IF calls[c].status = "awaitInsert" THEN 1 ELSE 0)
     /\ a /= << >>
          => \A i \in 0..(a[Len(a)] - 1) :
               EntryErrors(calls[c].entries[i + 1], i) = << >>
                 => \E k \in 1..(Len(a) - 1) : a[k] = i

\* A step of call c that starts an insert: it is the first of the call, or
\* the step in which the insert awaited before it completed or failed.
AttemptStartsAfterResolution(c) ==
  (calls'[c].attempts /= calls[c].attempts /\ calls'[c].attempts /= << >>)
    => /\ Len(calls'[c].attempts) = Len(calls[c].attempts) + 1
       /\ SubSeq(calls'[c].attempts, 1, Len(calls[c].attempts)) = calls[c].attempts
       /\ calls[c].attempts /= << >>
            => /\ calls[c].status = "awaitInsert"
               /\ \/ Len(store') = Len(store) + 1
                  \/ Len(calls'[c].result.errors) = Len(calls[c].result.errors) + 1

\* C16 (persistence order mirrors input order): within one importEntries
\* call the inserts are attempted in strictly increasing row index, one at a
\* time; the insert for a row starts only when the insert of every earlier
\* valid row has completed or failed.
InsertsInInputOrder ==
  /\ [](\A c \in Callers :
          (calls[c].op \in ImportOps /\ Entered(c) /\ dbAvailable
             /\ calls[c].status /= "raised")
            => AttemptsInOrder(c))
  /\ [][\A c \in Callers : AttemptStartsAfterResolution(c)]_vars

\* The insert for row 2 is awaited after the insert for row 0 was resolved
\* and the invalid row 1 was passed over.
InsertsInInputOrderWitness ==
  \E c \in Callers :
    /\ calls[c].status = "awaitInsert"
    /\ calls[c].attempts = <<0, 2>>
    /\ ResolvedInserts(c) = 1
\* The rules of the validator in the order the claim gives them: 1 type
\* missing, 2 type invalid, 3 title missing or blank, 4 content missing or
\* blank, 5 title longer than 255.
RuleNumbers == 1..5
AllowedTypeTexts ==
  { <<"w", "e", "b", "s", "i", "t", "e">>, <<"b", "o", "o", "k">>, <<"m", "u", "s", "i", "c">>, <<"a", "r", "t", "i", "s", "t">>, <<"f", "e", "a", "t", "u", "r", "e">>, <<"b", "l", "o", "g">> }
BlankText(x) == \A n \in 1..Len(x.v) : x.v[n] \in {" ", "\t", "\n", "\r"}

Breaks(entry, rule) ==
  CASE rule = 1 -> ~Truthy(Get(entry, K_type))
    [] rule = 2 -> /\ Truthy(Get(entry, K_type))
                   /\ ~(Get(entry, K_type).k = "string"
                          /\ Get(entry, K_type).v \in AllowedTypeTexts)
    [] rule = 3 -> ~Truthy(Get(entry, K_title)) \/ BlankText(Get(entry, K_title))
    [] rule = 4 -> ~Truthy(Get(entry, K_content)) \/ BlankText(Get(entry, K_content))
    [] rule = 5 -> Truthy(Get(entry, K_title)) /\ Len(Get(entry, K_title).v) > 255

RuleText(entry, rule) ==
  CASE rule = 1 -> <<"Missing type field">>
    [] rule = 2 -> <<"Invalid type: ">> \o ToStr(Get(entry, K_type))
                     \o <<". Must be one of: ">>
                     \o <<"w", "e", "b", "s", "i", "t", "e", ",", " ", "b", "o", "o", "k", ",", " ", "m", "u", "s", "i", "c", ",", " ", "a", "r", "t", "i", "s", "t", ",", " ", "f", "e", "a", "t", "u", "r", "e", ",", " ", "b", "l", "o", "g">>
    [] rule = 3 -> <<"Missing or empty title">>
    [] rule = 4 -> <<"Missing or empty content">>
    [] rule = 5 -> <<"Title too long (max 255 characters)">>

\* The (row, rule) pairs a batch breaks, and the pair that comes n-th when
\* they are put in increasing row and, within a row, increasing rule.
BrokenPairs(entries) ==
  {p \in (0..(Len(entries) - 1)) \X RuleNumbers : Breaks(entries[p[1] + 1], p[2])}
PairAt(entries, n) ==
  CHOOSE p \in BrokenPairs(entries) :
    Cardinality({q \in BrokenPairs(entries) :
                   q[1] < p[1] \/ (q[1] = p[1] /\ q[2] < p[2])}) = n - 1

\* The output the claim prescribes for a batch.
PrescribedErrors(entries) ==
  [n \in 1..Cardinality(BrokenPairs(entries)) |->
     [index |-> PairAt(entries, n)[1],
      error |-> RuleText(entries[PairAt(entries, n)[1] + 1], PairAt(entries, n)[2])]]

\* An entry without its url and metadata.
WithoutUrlAndMetadata(entry) ==
  IF entry.k /= "object" THEN entry
  ELSE Obj(SelectSeq(entry.v, LAMBDA m : m[1] \notin {K_url, K_metadata}))

\* The batch of call c went through validateEntries and it returned.
Validated(c) ==
  /\ calls[c].op \in ImportOps /\ Entered(c)
  /\ calls[c].status /= "raised"

\* C17 (validateEntries is an exact, ordered rule check): when it returns,
\* its output is the broken (row, rule) pairs by increasing row and, within a
\* row, in the order type missing or else type invalid, title, content, title
\* too long, each with its fixed text; a row breaking no rule gives no
\* record; url and metadata do not change the output.
ValidatorExactOrdered ==
  \A c \in Callers :
    Validated(c)
      => /\ calls[c].validationErrors = PrescribedErrors(calls[c].entries)
         /\ validateEntries([n \in 1..Len(calls[c].entries) |->
                               WithoutUrlAndMetadata(calls[c].entries[n])]).val
              = calls[c].validationErrors

\* A validated batch whose entry breaks the content and the length rule.
ValidatorExactOrderedWitness ==
  \E c \in Callers :
    /\ Validated(c)
    /\ Len(calls[c].validationErrors) = 2
    /\ calls[c].validationErrors[1].error = <<"Missing or empty content">>
    /\ calls[c].validationErrors[2].error = <<"Title too long (max 255 characters)">>
\* The rows parseCSV is to return for the text of call c: one for each
\* non-blank line after the first, which gives the names.
RowsOfKeptLines(c) ==
  [n \in 1..(Len(KeptLines(calls[c].content)) - 1) |->
     RowOf(TrimAll(Split(KeptLines(calls[c].content)[1], ",")),
           TrimAll(Split(KeptLines(calls[c].content)[n + 1], ",")),
           1, << >>)]

\* C18 (blank lines and row count): parseCSV drops the empty and the
\* whitespace-only lines first, fails when fewer than two lines remain, and
\* otherwise returns one row for each remaining line after the first, in
\* input order, the first remaining line being the header.
BlankLinesDropped ==
  \A c \in Callers :
    calls[c].op = "importFromCSV"
      => IF Len(KeptLines(calls[c].content)) < 2
         THEN /\ ParsedCSV(calls[c].content).threw
              /\ calls[c].status = "returned"
              /\ calls[c].result.errors[1].error =
                   <<"CSV parsing failed: ",
                     "CSV must have at least a header row and one data row">>
         ELSE /\ ~ParsedCSV(calls[c].content).threw
              /\ ParsedCSV(calls[c].content).val = RowsOfKeptLines(c)
              /\ (Entered(c) /\ calls[c].status /= "raised")
                   => /\ Len(calls[c].entries)
                           = Len(KeptLines(calls[c].content)) - 1
                      /\ calls[c].result.totalRows
                           = Len(KeptLines(calls[c].content)) - 1

\* A text with an empty and a whitespace-only line between the header and
\* its one data line was imported as a batch of one row.
BlankLinesDroppedWitness ==
  \E c \in Callers :
    /\ calls[c].op = "importFromCSV" /\ calls[c].status = "returned"
    /\ Len(Split(calls[c].content, "\n")) > Len(KeptLines(calls[c].content))
    /\ \E n \in 1..Len(Split(calls[c].content, "\n")) :
         Split(calls[c].content, "\n")[n] = <<" ", " ">>
    /\ Entered(c)
    /\ calls[c].result.totalRows = 1
    /\ calls[c].result.importedRows = 1
\* The trimmed comma-separated segments of the n-th non-blank line of the
\* text of call c.
SegmentsOf(c, n) == TrimAll(Split(KeptLines(calls[c].content)[n], ","))

\* The keys of a row object.
KeysOf(row) == {row.v[m][1] : m \in 1..Len(row.v)}

\* Row n of the parse of the text of call c is what the claim describes: its
\* keys are the header's names, the value of the j-th name is the j-th
\* segment of the line, or the empty string when the line is shorter.
RowAsDescribed(c, n) ==
  LET row == ParsedCSV(calls[c].content).val[n]
      names == SegmentsOf(c, 1)
      segments == SegmentsOf(c, n + 1)
  IN /\ row.k = "object"
     /\ KeysOf(row) = {names[j] : j \in 1..Len(names)}
     /\ \A j \in 1..Len(names) :
          Get(row, names[j])
            = Str(IF j <= Len(segments) THEN segments[j] ELSE << >>)

\* The header of the text of call c names each column once and names none
\* __proto__.
PlainHeader(c) ==
  /\ \A i, j \in 1..Len(SegmentsOf(c, 1)) :
       SegmentsOf(c, 1)[i] = SegmentsOf(c, 1)[j] => i = j
  /\ \A j \in 1..Len(SegmentsOf(c, 1)) : SegmentsOf(c, 1)[j] /= K_proto

\* C19 as stated (row keys and values): every row parseCSV returns has
\* exactly the header's trimmed names as keys, the j-th of them holding the
\* trimmed j-th segment of the line, or "" when the line is shorter; segments
\* beyond the header are ignored and no quoting is interpreted.
RowKeysAndValues ==
  \A c \in Callers :
    (calls[c].op = "importFromCSV" /\ ~ParsedCSV(calls[c].content).threw)
      => \A n \in 1..Len(ParsedCSV(calls[c].content).val) : RowAsDescribed(c, n)

\* C19 amended: the same, for a header whose trimmed names are pairwise
\* distinct and none of which is __proto__.
RowKeysAndValuesPlainHeader ==
  \A c \in Callers :
    (calls[c].op = "importFromCSV" /\ ~ParsedCSV(calls[c].content).threw
       /\ PlainHeader(c))
      => \A n \in 1..Len(ParsedCSV(calls[c].content).val) : RowAsDescribed(c, n)

\* Texts with a line shorter than the header and with a line longer than the
\* header have been parsed and imported.
RowKeysAndValuesWitness ==
  \E c \in Callers :
    /\ calls[c].op = "importFromCSV" /\ calls[c].status = "returned"
    /\ Entered(c) /\ PlainHeader(c)
    /\ \/ /\ Len(SegmentsOf(c, 2)) < Len(SegmentsOf(c, 1))
          /\ Get(calls[c].entries[1], K_content) = Str(<< >>)
       \/ /\ Len(SegmentsOf(c, 2)) > Len(SegmentsOf(c, 1))
          /\ calls[c].result.importedRows = 1
\* The text a row holds under a name, or the given text when the row has no
\* such name or holds the empty string there.
TextOr(row, key, default) ==
  IF Get(row, key).k = "string" /\ Len(Get(row, key).v) > 0
  THEN Get(row, key) ELSE Str(default)

\* The validator recorded the given text for row index i of call c.
Recorded(c, i, first) ==
  \E m \in 1..Len(calls[c].validationErrors) :
    /\ calls[c].validationErrors[m].index = i
    /\ calls[c].validationErrors[m].error[1] = first

\* Entry n of call c is the n-th row with the defaults applied, and the
\* validator treats it accordingly.
EntryFromRow(c, n) ==
  LET row == ParsedCSV(calls[c].content).val[n]
      entry == calls[c].entries[n]
  IN /\ Get(entry, K_type) = TextOr(row, K_type, <<"w", "e", "b", "s", "i", "t", "e">>)
     /\ Get(entry, K_title) = TextOr(row, K_title, << >>)
     /\ Get(entry, K_content) = TextOr(row, K_content, << >>)
     /\ Get(entry, K_url) = Get(row, K_url)
     /\ Get(row, K_title) \in {Undef, Str(<< >>)}
          => /\ Recorded(c, n - 1, "Missing or empty title")
             /\ \A k \in 1..Len(calls[c].attempts) : calls[c].attempts[k] /= n - 1
     /\ Get(row, K_content) \in {Undef, Str(<< >>)}
          => /\ Recorded(c, n - 1, "Missing or empty content")
             /\ \A k \in 1..Len(calls[c].attempts) : calls[c].attempts[k] /= n - 1
     /\ Get(row, K_type) \in {Undef, Str(<< >>)}
          => /\ ~Recorded(c, n - 1, "Missing type field")
             /\ ~Recorded(c, n - 1, "Invalid type: ")

\* C20 (defaults of csvToEntries): when the conversion returns, there is one
\* entry per row, in order, with type "website" for a row without a type or
\* with an empty one, title and content "" when absent, and url as the row
\* has it; a row without title or content is then rejected by the validator,
\* a row without type passes the type rule as a website entry.
CsvDefaults ==
  \A c \in Callers :
    (calls[c].op = "importFromCSV" /\ Entered(c) /\ calls[c].status /= "raised")
      => /\ Len(calls[c].entries) = Len(ParsedCSV(calls[c].content).val)
         /\ \A n \in 1..Len(calls[c].entries) : EntryFromRow(c, n)

\* A text whose header has no type column was imported and its row stored as
\* a website entry.
CsvDefaultsWitness ==
  \E c \in Callers :
    /\ calls[c].op = "importFromCSV" /\ calls[c].status = "returned"
    /\ Entered(c) /\ dbAvailable
    /\ Get(ParsedCSV(calls[c].content).val[1], K_type) = Undef
    /\ calls[c].result.importedRows = 1
    /\ store /= << >>
    /\ store[Len(store)].type = Str(T_website)
    /\ store[Len(store)].userId = calls[c].userId
\* The text parses into rows of which row n has a non-empty metadata field
\* that is not JSON text.
BadMetadataIn(content, n) ==
  /\ ~ParsedCSV(content).threw
  /\ n \in 1..Len(ParsedCSV(content).val)
  /\ Get(ParsedCSV(content).val[n], K_metadata).k = "string"
  /\ Get(ParsedCSV(content).val[n], K_metadata).v /= << >>
  /\ ~JSONparse(Get(ParsedCSV(content).val[n], K_metadata).v).ok

BadMetadataAt(c, n) ==
  calls[c].op = "importFromCSV" /\ BadMetadataIn(calls[c].content, n)

BadMetadata(c) == \E n \in 1..MaxBatch + 1 : BadMetadataAt(c, n)

\* C21 (a metadata parse failure aborts the delimited batch): when a row of
\* a delimited import has a non-empty metadata field that is not JSON text,
\* the mapping raises before validation and persistence: no row of the batch
\* is inserted, and the failure is the single batch-level error of a result
\* with no rows, not an error of that row.
MetadataFailureAbortsBatch ==
  /\ [](\A c \in Callers :
          BadMetadata(c)
            => /\ calls[c].status = "returned"
               /\ calls[c].entries = << >>
               /\ calls[c].validationErrors = << >>
               /\ calls[c].attempts = << >>
               /\ ~calls[c].result.success
               /\ calls[c].result.totalRows = 0
               /\ calls[c].result.importedRows = 0
               /\ calls[c].result.skippedRows = 0
               /\ Len(calls[c].result.errors) = 1
               /\ calls[c].result.errors[1].rowIndex = 0
               /\ calls[c].result.errors[1].error[1] = "CSV parsing failed: ")
  /\ [][\A c \in Callers :
          ( \/ BadMetadata(c)
            \/ /\ calls'[c].op = "importFromCSV"
               /\ \E n \in 1..MaxBatch + 1 : BadMetadataIn(calls'[c].content, n) )
            => store' = store]_vars

\* A batch whose first row is valid and whose second row has metadata that
\* is not JSON was imported with storage available.
MetadataFailureAbortsBatchWitness ==
  \E c \in Callers :
    /\ BadMetadataAt(c, 2) /\ ~BadMetadataAt(c, 1)
    /\ calls[c].status = "returned" /\ dbAvailable
    /\ EntryErrors(EntryOfRow(ParsedCSV(calls[c].content).val[1]).entry, 0) = << >>
\* Record n of the array a structured export wrote, for the stored row it
\* was made from, has the shape the claim gives.
ExportedRecordShape(record, row) ==
  /\ record.k = "object"
  /\ Get(record, K_type) = row.type
  /\ Get(record, K_title) = row.title
  /\ Get(record, K_content) = row.content
  /\ Get(record, K_metadata)
       = (IF row.metadata.k = "string" THEN JSONparse(row.metadata.v).val
          ELSE Obj(<< >>))
  /\ (MemberIndex(record.v, K_url) /= 0) <=> (row.url.k = "string")

\* C22 (structured export shape): exportAsJSON emits one record per stored
\* entry with its type, title and content; metadata is the value parsed from
\* the stored JSON text, the empty object when the entry has none; url is a
\* member of the record only when the stored entry has a url.
StructuredExportShape ==
  \A c \in Callers :
    (calls[c].op = "exportAsJSON" /\ calls[c].status = "returned"
       /\ calls[c].fetched /= << >>)
      => /\ JSONparse(calls[c].output).ok
         /\ JSONparse(calls[c].output).val.k = "array"
         /\ Len(JSONparse(calls[c].output).val.v) = Len(calls[c].fetched)
         /\ \A n \in 1..Len(calls[c].fetched) :
              ExportedRecordShape(JSONparse(calls[c].output).val.v[n],
                                  calls[c].fetched[n])
\* A text between double quotes.
InQuotes(x) == <<"\"">> \o x \o <<"\"">>

\* A text with each of its double quotes written twice.
RECURSIVE QuotesTwice(_)
QuotesTwice(s) ==
  IF s = << >> THEN << >>
  ELSE (IF Head(s) = "\"" THEN <<"\"", "\"">> ELSE <<Head(s)>>)
         \o QuotesTwice(Tail(s))

\* The text of a column, empty when the column holds no text.
TextOrEmpty(x) == IF x.k = "string" THEN x.v ELSE << >>

\* The line the claim gives for a stored row.
QuotedLine(row) ==
  InQuotes(row.type.v) \o <<",">>
    \o InQuotes(QuotesTwice(row.title.v)) \o <<",">>
    \o InQuotes(QuotesTwice(row.content.v)) \o <<",">>
    \o InQuotes(TextOrEmpty(row.url)) \o <<",">>
    \o InQuotes(TextOrEmpty(row.metadata)) \o <<"\n">>

RECURSIVE QuotedLines(_)
QuotedLines(rows) ==
  IF rows = << >> THEN << >> ELSE QuotedLine(Head(rows)) \o QuotedLines(Tail(rows))

\* C23 (delimited export format): when the export reads at least one entry,
\* exportAsCSV emits the header line type,title,content,url,metadata and
\* then one line per entry with all five fields in double quotes, the double
\* quotes of title and content doubled, url and metadata empty when absent.
DelimitedExportFormat ==
  \A c \in Callers :
    (calls[c].op = "exportAsCSV" /\ calls[c].status = "returned"
       /\ calls[c].fetched /= << >>)
      => calls[c].output
           = <<"t", "y", "p", "e", ",", "t", "i", "t", "l", "e", ",", "c", "o", "n", "t", "e", "n", "t", ",", "u", "r", "l", ",", "m", "e", "t", "a", "d", "a", "t", "a", "\n">> \o QuotedLines(calls[c].fetched)

\* An export of a row whose title and content hold a double quote and which
\* has neither url nor metadata.
DelimitedExportFormatWitness ==
  \E c \in Callers :
    /\ calls[c].op = "exportAsCSV" /\ calls[c].status = "returned"
    /\ \E n \in 1..Len(calls[c].fetched) :
         /\ \E k \in 1..Len(calls[c].fetched[n].title.v) :
              calls[c].fetched[n].title.v[k] = "\""
         /\ calls[c].fetched[n].url.k = "null"
         /\ calls[c].fetched[n].metadata.k = "null"
RECURSIVE StripLeft(_)
StripLeft(s) ==
  IF s /= << >> /\ Head(s) \in {" ", "\t", "\r", "\n"} THEN StripLeft(Tail(s)) ELSE s
RECURSIVE StripRight(_)
StripRight(s) ==
  IF s /= << >> /\ s[Len(s)] \in {" ", "\t", "\r", "\n"}
  THEN StripRight(SubSeq(s, 1, Len(s) - 1)) ELSE s

\* The fields of a line: its comma-separated segments without the white
\* space around them.
FieldsOfLine(line) ==
  [n \in 1..Len(Split(line, ",")) |-> StripRight(StripLeft(Split(line, ",")[n]))]

\* A data line of three fields: a valid type, a title and a content.
CleanLine(line) ==
  /\ Len(FieldsOfLine(line)) = 3
  /\ FieldsOfLine(line)[1] \in AllowedTypeTexts
  /\ FieldsOfLine(line)[2] /= << >>
  /\ FieldsOfLine(line)[3] /= << >>

\* Call c imported clean rows under the header type,title,content, storage
\* was available and accepted every insert, and the call has returned.
CleanImportReturned(c) ==
  /\ calls[c].op = "importFromCSV" /\ calls[c].status = "returned"
  /\ dbAvailable
  /\ Len(KeptLines(calls[c].content)) >= 2
  /\ FieldsOfLine(KeptLines(calls[c].content)[1])
       = << <<"t", "y", "p", "e">>, <<"t", "i", "t", "l", "e">>, <<"c", "o", "n", "t", "e", "n", "t">> >>
  /\ \A n \in 2..Len(KeptLines(calls[c].content)) :
       CleanLine(KeptLines(calls[c].content)[n])
  /\ \A m \in 1..Len(calls[c].result.errors) :
       calls[c].result.errors[m].error[1] /= "Database insert failed: "

\* The table ends with one row per data line of call c, holding the owner
\* and the fields of the line.
DataRowsPersisted(c) ==
  LET lines == KeptLines(calls[c].content)
      k == Len(lines) - 1
  IN /\ calls[c].result.success
     /\ calls[c].result.totalRows = k
     /\ calls[c].result.importedRows = k
     /\ calls[c].result.skippedRows = 0
     /\ calls[c].result.errors = << >>
     /\ Len(store) >= k
     /\ \A n \in 1..k :
          /\ store[Len(store) - k + n].userId = calls[c].userId
          /\ store[Len(store) - k + n].type = Str(FieldsOfLine(lines[n + 1])[1])
          /\ store[Len(store) - k + n].title = Str(FieldsOfLine(lines[n + 1])[2])
          /\ store[Len(store) - k + n].content = Str(FieldsOfLine(lines[n + 1])[3])

\* C24 as stated (end-to-end import of clean rows): delimited text with the
\* header type,title,content and data rows of comma-free fields with a valid
\* type and non-blank title and content, imported with storage available and
\* accepting, is persisted row for row with the trimmed values and returns
\* success true with importedRows the number of data rows.
CleanRowsImported ==
  \A c \in Callers : CleanImportReturned(c) => DataRowsPersisted(c)

\* C24 amended: the same, for rows whose title has at most 255 characters.
CleanRowsImportedShortTitles ==
  \A c \in Callers :
    ( /\ CleanImportReturned(c)
      /\ \A n \in 2..Len(KeptLines(calls[c].content)) :
           Len(FieldsOfLine(KeptLines(calls[c].content)[n])[2]) <= 255 )
      => DataRowsPersisted(c)

\* The text "type,title,content\nmusic,Track 1,My song" was imported and its
\* row stored.
CleanRowsImportedWitness ==
  \E c \in Callers :
    /\ CleanImportReturned(c)
    /\ calls[c].content = <<"t", "y", "p", "e", ",", "t", "i", "t", "l", "e", ",", "c", "o", "n", "t", "e", "n", "t", "\n", "m", "u", "s", "i", "c", ",", "T", "r", "a", "c", "k", " ", "1", ",", "M", "y", " ", "s", "o", "n", "g">>
    /\ calls[c].result.importedRows = 1
    /\ store[Len(store)].title = Str(<<"T", "r", "a", "c", "k", " ", "1">>)
\* The result of import call c, as far as it has got, is about the rows of
\* its own batch.
OwnRowsOnly(c) ==
  /\ calls[c].result.totalRows = Len(calls[c].entries)
  /\ RowIndexInOriginal(c)
  /\ ResolvedInserts(c)
       = Len(calls[c].attempts) - (IF calls[c].status = "awaitInsert" THEN 1 ELSE 0)
  /\ calls[c].status = "returned"
       => /\ calls[c].result.totalRows
               = calls[c].result.importedRows + calls[c].result.skippedRows
          /\ CountsPerRow(c)

\* A step changes the call of one caller only.
OneCallPerStep ==
  \A c, d \in Callers : (c /= d /\ calls'[d] /= calls[d]) => calls'[c] = calls[c]

\* A row enters the table exactly in the step that counts it for the call
\* that awaited its insert, and it is that call's row under that call's owner.
RowCountedByItsCall ==
  /\ store' /= store
       => \E c \in Callers :
            /\ calls[c].status = "awaitInsert"
            /\ calls'[c].result.importedRows = calls[c].result.importedRows + 1
            /\ store' = Append(store, InsertValues(calls[c].userId,
                                                   calls[c].entries[calls[c].i + 1]))
  /\ \A c \in Callers :
       ( /\ calls[c].status = "awaitInsert"
         /\ calls'[c].result.importedRows /= calls[c].result.importedRows )
         => Len(store') = Len(store) + 1

\* C25 (import calls share no mutable state): with two import calls in
\* flight and their awaited inserts resolving in any order, the result of
\* each counts and lists only the rows of its own batch, and each returned
\* result has totalRows = importedRows + skippedRows.
CallsShareNoState ==
  /\ [](\A c \in Callers :
          (calls[c].op \in ImportOps /\ Entered(c) /\ dbAvailable
             /\ calls[c].status /= "raised")
            => OwnRowsOnly(c))
  /\ [][OneCallPerStep /\ RowCountedByItsCall]_vars

\* Two imports of different owners both await an insert, one of them after
\* it skipped an invalid row.
CallsShareNoStateWitness ==
  /\ calls["c1"].status = "awaitInsert"
  /\ calls["c2"].status = "awaitInsert"
  /\ calls["c1"].userId /= calls["c2"].userId
  /\ calls["c1"].result.skippedRows = 1
\* The stored row is the given entry under the given owner: the entry's
\* type, title, content and url, and its metadata as JSON text, null when the
\* entry has no url or no metadata.
StoredAsGiven(row, userId, entry) ==
  /\ row.userId = userId
  /\ row.type = Get(entry, K_type)
  /\ row.title = Get(entry, K_title)
  /\ row.content = Get(entry, K_content)
  /\ row.url = (IF Get(entry, K_url).k = "undefined" THEN Null
                ELSE Get(entry, K_url))
  /\ row.metadata = (IF Get(entry, K_metadata).k = "undefined" THEN Null
                     ELSE Str(JSONstringify(Get(entry, K_metadata))))

\* C26 (stored rows carry their owner and their entry): every row inserted
\* by importEntries(userId, ...) is stored under that userId with the type,
\* title, content and url of its entry and the metadata as JSON text, null
\* when the entry has none; the rows already stored are left as they are, and
\* no import writes a row under another owner.
InsertedUnderOwner ==
  [][store' /= store
       => \E c \in Callers :
            /\ calls[c].op \in ImportOps
            /\ calls[c].status = "awaitInsert"
            /\ Len(store') = Len(store) + 1
            /\ SubSeq(store', 1, Len(store)) = store
            /\ StoredAsGiven(store'[Len(store')], calls[c].userId,
                             calls[c].entries[calls[c].i + 1])]_vars

\* The table holds a row of owner 2 with url and metadata text after a row
\* of owner 1 without them.
InsertedUnderOwnerWitness ==
  /\ Len(store) = 2
  /\ store[1].userId = 1 /\ store[1].url = Null /\ store[1].metadata = Null
  /\ store[2].userId = 2 /\ store[2].url = Str(<<"u">>)
  /\ store[2].metadata = Str(<<"{", "\"", "k", "\"", ":", "1", "}">>)
\* C27 (the delimited template is importable): the text generateCSVTemplate
\* returns, imported with storage available and accepting every insert,
\* yields totalRows 3, importedRows 3, skippedRows 0 and success true, the
\* three sample rows being stored.
TemplateImportable ==
  \A c \in Callers :
    ( /\ calls[c].op = "importFromCSV" /\ calls[c].status = "returned"
      /\ calls[c].content = generateCSVTemplate
      /\ dbAvailable
      /\ \A m \in 1..Len(calls[c].result.errors) :
           calls[c].result.errors[m].error[1] /= "Database insert failed: " )
      => /\ calls[c].result.totalRows = 3
         /\ calls[c].result.importedRows = 3
         /\ calls[c].result.skippedRows = 0
         /\ calls[c].result.success
         /\ Len(store) >= 3
\* C28 (success means no errors): in every ImportResult an import operation
\* returns, success is true exactly when errors is empty; a successful
\* result has no error record and an unsuccessful one has at least one.
SuccessIffNoErrors ==
  \A c \in Callers :
    ImportReturned(c)
      => (calls[c].result.success <=> calls[c].result.errors = << >>)

\* An import of one row has returned success with no error record, and the
\* table holds the row.
SuccessIffNoErrorsWitness ==
  \E c \in Callers :
    /\ ImportReturned(c) /\ Entered(c)
    /\ calls[c].result.success
    /\ calls[c].result.importedRows = 1
    /\ calls[c].result.errors = << >>
    /\ store /= << >>
\* What getBotSubscriptionStatus would report for the pair on the given
\* table at the given time.
ReportedActive(table, t, userId, botId) ==
  getBotSubscriptionStatus(table, t, userId, botId).isActive

\* The step in which cancelBotSubscription of caller c returns success.
CancelSucceeds(c) ==
  /\ botCalls[c].op = "cancelBotSubscription"
  /\ botCalls[c].status = "awaitUpdate"
  /\ botCalls'[c].status = "returned"
  /\ botCalls'[c].result.success

\* The step in which a completeBotSubscription for the pair stores its
\* purchase.
CompletionStores(userId, botId) ==
  \E c \in Callers :
    /\ botCalls[c].op = "completeBotSubscription"
    /\ botCalls[c].status = "awaitPurchaseInsert"
    /\ botCalls[c].userId = userId /\ botCalls[c].botId = botId
    /\ Len(purchases') = Len(purchases) + 1

HoldsActivePurchase(c) ==
  \E n \in 1..Len(purchases) :
    /\ purchases[n].userId = ParseInt(botCalls[c].userId)
    /\ purchases[n].botId = botCalls[c].botId
    /\ purchases[n].status = "active"
    /\ purchases[n].expiryDate > now

\* C30 (no second checkout for an active subscription): whenever the table
\* holds for a user and bot a purchase that is active and not yet due,
\* createBotCheckout for them returns success false with "You already have
\* an active subscription to this bot" and no checkout URL, whatever other
\* purchases the pair has.
NoSecondCheckout ==
  \A c \in Callers :
    ( /\ botCalls[c].op = "createBotCheckout"
      /\ botCalls[c].status = "returned"
      /\ HoldsActivePurchase(c) )
      => /\ ~botCalls[c].result.success
         /\ botCalls[c].result.message
              = <<"You already have an active subscription to this bot">>
         /\ botCalls[c].result.checkoutUrl = << >>

====
